---- MODULE Spec2Model ----
(***************************************************************************)
(* State-machine model of the Atous-Sec-Network edge-node agent:           *)
(*   - ChurnMitigation        (network/p2p_recovery.py)                    *)
(*   - FederatedModelUpdater  (core/model_manager.py)                      *)
(*   - LoraAdaptiveEngine     (network/lora_optimizer.py)                  *)
(* Each component owns its own variables and has its own specification;    *)
(* the variables of the other components are left unchanged by it.         *)
(***************************************************************************)
EXTENDS Integers, Sequences, FiniteSets, TLC

VARIABLES
    \* ---- ChurnMitigation (p2p_recovery.py) ----
    active_nodes,          \* set of node ids
    failed_nodes,          \* node id -> failure timestamp
    data_shards,           \* node id -> sequence of shard tokens
    service_assignments,   \* service -> node id
    routing_table,         \* node id -> sequence of neighbour ids
    node_health,           \* node id -> NodeHealth record
    failure_history,       \* deque(maxlen=1000) of failure entries
    now,                   \* time.time(), in seconds
    mon_pc,                \* position of _monitor_loop within a tick
    mon_queue,             \* nodes of list(self.active_nodes) not yet pinged
    churn,                 \* membership changes (failures, removals, additions) so far
    stranded,              \* a failure or removal has found no other active node
    rd_pc,                 \* position of a get_health_metrics call
    rd_obs,                \* values the reader has read so far
    tick_pre,              \* membership counts when the last tick began
    tick_post,             \* membership counts when the last tick ended
    tick_seen,             \* reports of the calls that ran inside the last tick
    rec_last,              \* the last recovery check of the monitor: the failed
                           \* nodes it found and those whose ping would answer
    life,                  \* the monitor's lifecycle: _stop_event, _monitor_thread,
                           \* the threads alive and the position of the caller
    hnf,                   \* the _handle_node_failure call of each thread: its
                           \* node and its position
    removed,               \* the nodes remove_node has returned for and add_node
                           \* has not been called for since
    \* ---- FederatedModelUpdater (model_manager.py) ----
    current_version,       \* self.current_version
    model_file,            \* the file at self.model_path: [exists, data]
    backups,               \* the .bak files of backup_dir: [version, mtime, data]
    version_history,       \* self.version_history, as the list of versions
    ota_clock,             \* int(time.time()), one second per operation
    ota_last,              \* what the last operation was given and what it did
    upd,                   \* the check_for_updates call of each thread
    both_patched,          \* two overlapping calls have each patched the model
    \* ---- LoraAdaptiveEngine (lora_optimizer.py) ----
    lora_built,            \* the constructor returned an engine
    config,                \* self.config
    metrics,               \* self.metrics: packet_loss, last snr, entries logged
    optimization_mode,     \* self.optimization_mode
    adjustment_count,      \* self.adjustment_count
    last_adjustment_time,  \* self.last_adjustment_time
    lora_now,              \* time.time() as the engine sees it
    lora_last,             \* the step just taken: the construction, an
                           \* adjust_parameters call (with what it returned and
                           \* the state it started from) or something else
    \* ---- NNISSystem (nnis_system.py) ----
    immune_cells,          \* self.immune_cells, a list of ImmuneCell
    memory_cells,          \* self.memory_cells, a list of ImmuneCell
    learning_history,      \* self.learning_history, deque(maxlen=memory_size)
    nnis_config,           \* self.config: immune_cells_count, memory_cells_count,
                           \* memory_size
    nnis_calls,            \* calls made so far: on the system, and on
                           \* ImmuneCell.learn directly
    nnis_last,             \* the call just made: its arguments, what it returned
                           \* and the lists it started from
    \* ---- ABISSSystem (abiss_system.py) ----
    abiss_history,         \* self.learning_history, deque(maxlen=memory_size)
    abiss_config,          \* self.config: memory_size, threat_threshold
    adaptive_responses,    \* self.adaptive_responses, with the score each
                           \* response was generated for
    abiss_calls,           \* calls made on the system so far
    abiss_last             \* the call just made

p2p_vars == <<active_nodes, failed_nodes, data_shards, service_assignments,
              routing_table, node_health, failure_history, now,
              mon_pc, mon_queue, churn, stranded>>
rd_vars == <<rd_pc, rd_obs, tick_pre, tick_post, tick_seen>>

ota_vars == <<current_version, model_file, backups, version_history,
              ota_clock, ota_last, upd, both_patched>>

lora_vars == <<lora_built, config, metrics, optimization_mode,
               adjustment_count, last_adjustment_time, lora_now, lora_last>>

\* written by the monitor tick of SpecRecovery only
rec_vars == <<rec_last>>

\* written by start_health_monitor, stop_health_monitor and the exit of
\* _monitor_loop, in SpecMonitor only
life_vars == <<life>>

\* written by the threads of SpecFailureRace and by the calls of
\* SpecRemoval only
race_vars == <<hnf, removed>>

nnis_vars == <<immune_cells, memory_cells, learning_history, nnis_config,
               nnis_calls, nnis_last>>

abiss_vars == <<abiss_history, abiss_config, adaptive_responses, abiss_calls,
                abiss_last>>

sec_vars == <<nnis_vars, abiss_vars>>

vars == <<p2p_vars, rd_vars, rec_vars, life_vars, race_vars, ota_vars, lora_vars, sec_vars>>

not_p2p_vars == <<rec_vars, life_vars, race_vars, ota_vars, lora_vars, sec_vars>>
not_ota_vars == <<p2p_vars, rd_vars, rec_vars, life_vars, race_vars, lora_vars,
                  sec_vars>>
not_lora_vars == <<p2p_vars, rd_vars, rec_vars, life_vars, race_vars, ota_vars,
                   sec_vars>>
not_nnis_vars == <<p2p_vars, rd_vars, rec_vars, life_vars, race_vars, ota_vars,
                   lora_vars, abiss_vars>>
not_abiss_vars == <<p2p_vars, rd_vars, rec_vars, life_vars, race_vars, ota_vars,
                    lora_vars, nnis_vars>>

----------------------------------------------------------------------------
\* Bounds of the model
NumNodes == 3          \* node ids are 1..NumNodes
MaxTicks == 1          \* the clock runs from 0 to MaxTicks * TimeStep
MaxChurn == 2          \* membership changes (failures, removals, additions) in one run

MaxVersion == 2        \* versions run from 0 to MaxVersion
MaxOtaOps == 3         \* operations of the model updater in one run
MaxLogs == 5           \* log_metrics calls between two reset_metrics
MaxLoraTicks == 2      \* steps of the clock of the LoRa engine
MaxRecoveryTicks == 2  \* steps of RecoveryTimeout the clock makes in SpecRecovery
MaxStarts == 2         \* monitor threads created in one run
MaxCalls == 4          \* start_health_monitor and stop_health_monitor calls in one run
MaxNnisCalls == 3      \* calls on the NNISSystem in one run
MaxLearns == 5         \* direct calls of ImmuneCell.learn in one run
MaxSteps == 4          \* calls of either kind in one run of SpecNNIS
MaxMemorySize == 2     \* memory_size runs from 1 to MaxMemorySize
MaxAbissCalls == 4     \* calls on the ABISSSystem in one run
MaxOutcomeCalls == 11  \* learn_from_outcome calls in one run of SpecThreshold

\* Program constants
MaxRollbackVersions == 3
MinAdjustmentInterval == 30
MinHistory == 5
HealthCheckInterval == 300
RecoveryTimeout == 600
HistoryMaxLen == 1000
MaxAgeMinutes == 30
CleanupPeriod == 3600
AdditionalCells == 50
DefaultMemorySize == 1000

\* The clock advances in steps of one cleanup period (an hour): one step
\* makes a failure old enough for a recovery ping (> 600 s) and for cleanup
\* (> 30 min), and brings the clock back to the hourly cleanup of the tick.
TimeStep == CleanupPeriod

Nodes == 1..NumNodes
Services == {"aggregator", "security_monitor"}

----------------------------------------------------------------------------
\* Generic helpers

Range(s) == {s[i] : i \in DOMAIN s}

\* All orders in which a set can be listed: list(some_set)
Perms(S) == {s \in [1..Cardinality(S) -> S] : Range(s) = S}

Min(a, b) == IF a < b THEN a ELSE b
Max(a, b) == IF a > b THEN a ELSE b

\* dict without key k
DictPop(d, k) == [x \in (DOMAIN d) \ {k} |-> d[x]]

\* dict with d[k] = v (key added when absent)
DictSet(d, k, v) == [x \in (DOMAIN d) \cup {k} |-> IF x = k THEN v ELSE d[x]]

\* list.remove(x): drops the first occurrence
RECURSIVE ListRemove(_, _)
ListRemove(s, x) ==
    IF s = <<>> THEN <<>>
    ELSE IF Head(s) = x THEN Tail(s)
    ELSE <<Head(s)>> \o ListRemove(Tail(s), x)

\* an append that never drops an entry
DequeAppend_Unbounded(q, e, m) == q \o <<e>>

\* deque(maxlen=m).append(e)
DequeAppend(q, e, m) ==
    IF Len(q) >= m THEN Tail(q) \o <<e>> ELSE q \o <<e>>

RECURSIVE SumLens(_, _)
SumLens(d, S) ==
    IF S = {} THEN 0
    ELSE LET k == CHOOSE x \in S : TRUE
         IN Len(d[k]) + SumLens(d, S \ {k})

\* total number of shard tokens stored over all nodes
TotalShards(d) == SumLens(d, DOMAIN d)

\* nodes holding shard token sh
Holders(d, sh) == {n \in DOMAIN d : sh \in Range(d[n])}

----------------------------------------------------------------------------
\* ChurnMitigation: pure parts of the operations

\* NodeHealth(node_id, last_seen, response_time, failure_count=0,
\* is_active=True).  last_seen and response_time are written but never read
\* by any decision of ChurnMitigation; the model keeps the two fields the
\* operations branch on or report as membership.
NewHealth == [failure_count |-> 0, is_active |-> TRUE]

\* _redistribute_data with the loop started one shard too late
\* (range(1, len(failed_shards)) in place of enumerate(failed_shards))
RedistributeData_SkipFirst(shards, active, failed_node, order) ==
    IF failed_node \notin DOMAIN shards THEN shards
    ELSE LET failed_shards == shards[failed_node]
             popped == DictPop(shards, failed_node)
             n == Len(order)
         IN IF n = 0 THEN popped
            ELSE [x \in (DOMAIN popped) \cup Range(order) |->
                    LET base == IF x \in DOMAIN popped THEN popped[x] ELSE <<>>
                        mine == SelectSeq([i \in 1..Len(failed_shards) |-> i],
                                          LAMBDA i : i > 1 /\ order[((i - 1) % n) + 1] = x)
                    IN base \o [j \in 1..Len(mine) |-> failed_shards[mine[j]]]]

\* _redistribute_data(failed_node), with `active` = self.active_nodes at the
\* call and `order` = list(self.active_nodes - {failed_node})
RedistributeData(shards, active, failed_node, order) ==
    IF failed_node \notin DOMAIN shards THEN shards
    ELSE LET failed_shards == shards[failed_node]
             popped == DictPop(shards, failed_node)
             n == Len(order)
         IN IF n = 0 THEN popped
            ELSE [x \in (DOMAIN popped) \cup Range(order) |->
                    LET base == IF x \in DOMAIN popped THEN popped[x] ELSE <<>>
                        mine == SelectSeq([i \in 1..Len(failed_shards) |-> i],
                                          LAMBDA i : order[((i - 1) % n) + 1] = x)
                    IN base \o [j \in 1..Len(mine) |-> failed_shards[mine[j]]]]

\* _reassign_services that picks a new node but never stores it
ReassignServices_NotStored(services, active, failed_node, pick) == services

\* _reassign_services(failed_node); pick[s] is the result of
\* _select_best_node_for_service(s, available_nodes) = random.choice(...)
ReassignServices(services, active, failed_node, pick) ==
    LET available_nodes == active \ {failed_node}
    IN [s \in DOMAIN services |->
          IF services[s] = failed_node /\ available_nodes # {}
          THEN pick[s] ELSE services[s]]

\* the results random.choice can give for every service (it is not called
\* when no node is available)
Picks(active, failed_node) ==
    LET available_nodes == active \ {failed_node}
    IN IF available_nodes = {} THEN {[s \in Services |-> failed_node]}
       ELSE [Services -> available_nodes]

\* _update_routing_table(failed_node)
UpdateRoutingTable(rt, failed_node) ==
    LET dropped == IF failed_node \in DOMAIN rt THEN DictPop(rt, failed_node) ELSE rt
    IN [x \in DOMAIN dropped |-> ListRemove(dropped[x], failed_node)]

\* the NodeHealth update of _handle_node_failure
HealthOnFailure(health, node) ==
    IF node \in DOMAIN health
    THEN [health EXCEPT ![node].failure_count = @ + 1, ![node].is_active = FALSE]
    ELSE health

\* _update_node_health(node, current_time)
UpdateNodeHealth(health, node) ==
    IF node \in DOMAIN health
    THEN [health EXCEPT ![node] = [failure_count |-> 0, is_active |-> TRUE]]
    ELSE health

\* _check_node_recovery pinging a node as soon as recovery_timeout is reached
RecoveryCandidates_AtTimeout(failed, t) ==
    {n \in DOMAIN failed : t - failed[n] >= RecoveryTimeout}

\* failed nodes _check_node_recovery(current_time) pings again
RecoveryCandidates(failed, t) ==
    {n \in DOMAIN failed : t - failed[n] > RecoveryTimeout}

\* the NodeHealth update of _restore_node for every node of `rec`
HealthOnRestore(health, rec) ==
    [x \in DOMAIN health |->
        IF x \in rec THEN [health[x] EXCEPT !.is_active = TRUE, !.failure_count = 0]
        ELSE health[x]]

\* _reach_consensus(decision_data, quorum): the quorum, given in tenths, is
\* not read
ReachConsensus(active, quorum) == Cardinality(active) >= 2

\* failed nodes _cleanup_old_failures(max_age_minutes) deletes at time t
OldFailures(failed, t) ==
    {n \in DOMAIN failed : t - failed[n] > MaxAgeMinutes * 60}

\* recovery_rate of get_health_metrics as <<recovered_count, len(recent_failures)>>
RecoveryRate(history, active, t) ==
    LET recent == SelectSeq(history, LAMBDA f : t - f.timestamp < 3600)
    IN <<Cardinality({n \in active : \E i \in DOMAIN recent : recent[i].node = n}),
         Len(recent)>>

----------------------------------------------------------------------------
\* ChurnMitigation: initial state and operations

\* a set of node ids listed in ascending order
RECURSIVE SortedSeq(_)
SortedSeq(S) ==
    IF S = {} THEN <<>>
    ELSE LET m == CHOOSE x \in S : \A y \in S : x <= y
         IN <<m>> \o SortedSeq(S \ {m})

\* the shard tokens node n starts with
InitialShards(n) == <<2 * n - 1, 2 * n>>

\* the services set up at the start: one on node 1, one on node 2
InitialServices ==
    [s \in Services |-> IF s = "aggregator" THEN 1 ELSE 2]

\* what get_health_metrics reports of the membership
Counts(active, failed) ==
    [active_nodes |-> Cardinality(active),
     failed_nodes |-> Cardinality(DOMAIN failed),
     total_nodes |-> Cardinality(active) + Cardinality(DOMAIN failed)]

\* the locals of a get_health_metrics call that has not read anything yet
NoObs == [in_tick |-> FALSE, recovery_rate |-> <<0, 0>>,
          active_nodes |-> 0, failed_nodes |-> 0]

\* no recovery check has run yet
NoCheck == [flip |-> FALSE, failed |-> <<>>, answers |-> {}]

\* __init__: self._monitor_thread = None, self._stop_event = Event().
\* Threads are numbered from 1 in the order they are created; thread = 0
\* stands for None.  `caller` is "idle" or, inside stop_health_monitor,
\* "join"; signal_pc is where the loop stood when _stop_event was last set
\* and refused tells that a start found the thread alive.
\* the two threads that can be in _handle_node_failure: the monitor, from
\* a ping that was not answered, and a caller of handle_node_failure
FailureThreads == {"monitor", "caller"}

\* neither thread is in _handle_node_failure
NoFailureCalls == [t \in FailureThreads |-> [pc |-> "idle", node |-> 0]]

NoMonitor ==
    [stop_event |-> FALSE, thread |-> 0, live |-> {}, created |-> 0,
     caller |-> "idle", calls |-> 0, signal_pc |-> "none", refused |-> FALSE]

\* start_health_monitor that creates a thread whether or not one is alive
StartHealthMonitor_NoAliveTest(l) ==
    [l EXCEPT !.stop_event = FALSE,
              !.thread = l.created + 1,
              !.created = l.created + 1,
              !.live = l.live \cup {l.created + 1}]

\* start_health_monitor(): nothing when self._monitor_thread is alive, else
\* the event cleared and a new thread created and started
StartHealthMonitor(l) ==
    IF l.thread # 0 /\ l.thread \in l.live
    THEN [l EXCEPT !.refused = TRUE]
    ELSE [l EXCEPT !.stop_event = FALSE,
                   !.thread = l.created + 1,
                   !.created = l.created + 1,
                   !.live = l.live \cup {l.created + 1}]

\* ChurnMitigation(node_list), then the given shards and services and the
\* routes set up on the nodes of node_list
P2PInitWith(node_list, shards, assign) ==
        /\ active_nodes = node_list
        /\ failed_nodes = <<>>
        /\ data_shards = shards
        /\ service_assignments = assign
        /\ routing_table = [n \in node_list |-> SortedSeq(node_list \ {n})]
        /\ node_health = [n \in node_list |-> NewHealth]
        /\ failure_history = <<>>
        /\ now = 0
        /\ mon_pc = "idle"
        /\ mon_queue = {}
        /\ churn = 0
        /\ stranded = FALSE
        /\ rd_pc = "idle"
        /\ rd_obs = NoObs
        /\ tick_pre = Counts(node_list, <<>>)
        /\ tick_post = Counts(node_list, <<>>)
        /\ tick_seen = {}
        /\ rec_last = NoCheck
        /\ life = NoMonitor
        /\ hnf = NoFailureCalls
        /\ removed = {}

P2PInit ==
    \E node_list \in {Nodes, Nodes \ {NumNodes}} :
      P2PInitWith(node_list, [n \in node_list |-> InitialShards(n)], InitialServices)

\* ChurnMitigation(node_list) with its routes set up, nothing stored and no
\* service assigned
RecoveryInit ==
    \E node_list \in {Nodes, Nodes \ {NumNodes}} :
      P2PInitWith(node_list, <<>>, <<>>)

\* ChurnMitigation(["1", "2"]) with its routes set up and nothing stored
MonitorInit == P2PInitWith({1, 2}, <<>>, <<>>)

membership_vars == <<active_nodes, failed_nodes, data_shards, service_assignments,
                     routing_table, node_health, failure_history, churn, stranded>>

\* the fields of the ChurnMitigation object as one record
Self ==
    [active_nodes |-> active_nodes, failed_nodes |-> failed_nodes,
     data_shards |-> data_shards, service_assignments |-> service_assignments,
     routing_table |-> routing_table, node_health |-> node_health,
     failure_history |-> failure_history, churn |-> churn, stranded |-> stranded]

\* the object's fields become those of record st
Becomes(st) ==
    /\ active_nodes' = st.active_nodes
    /\ failed_nodes' = st.failed_nodes
    /\ data_shards' = st.data_shards
    /\ service_assignments' = st.service_assignments
    /\ routing_table' = st.routing_table
    /\ node_health' = st.node_health
    /\ failure_history' = st.failure_history
    /\ churn' = st.churn
    /\ stranded' = st.stranded

\* _handle_node_failure(node, failure_time): the states it can end in, one
\* for every order of list(active_nodes - {node}) and every random.choice
FailureOutcomes(st, node, failure_time) ==
    IF node \notin st.active_nodes THEN {st}
    ELSE LET active == st.active_nodes \ {node}
         IN {[active_nodes |-> active,
              failed_nodes |-> DictSet(st.failed_nodes, node, failure_time),
              node_health |-> HealthOnFailure(st.node_health, node),
              failure_history |->
                  DequeAppend(st.failure_history,
                              [node |-> node, timestamp |-> failure_time],
                              HistoryMaxLen),
              data_shards |-> RedistributeData(st.data_shards, active, node, order),
              service_assignments |->
                  ReassignServices(st.service_assignments, active, node, pick),
              routing_table |-> UpdateRoutingTable(st.routing_table, node),
              churn |-> st.churn + 1,
              stranded |-> st.stranded \/ active = {}]
             : order \in Perms(active), pick \in Picks(active, node)}

\* remove_node that redistributes the data and leaves the services
RemoveOutcomes_NoReassign(st, node_id) ==
    IF node_id \notin st.active_nodes THEN {st}
    ELSE LET active == st.active_nodes \ {node_id}
         IN {[st EXCEPT
                !.active_nodes = active,
                !.data_shards = RedistributeData(st.data_shards, active, node_id, order),
                !.node_health = IF node_id \in DOMAIN st.node_health
                                THEN DictPop(st.node_health, node_id)
                                ELSE st.node_health,
                !.churn = st.churn + 1,
                !.stranded = st.stranded \/ active = {}]
             : order \in Perms(active)}

\* remove_node(node_id)
RemoveOutcomes(st, node_id) ==
    IF node_id \notin st.active_nodes THEN {st}
    ELSE LET active == st.active_nodes \ {node_id}
         IN {[st EXCEPT
                !.active_nodes = active,
                !.data_shards = RedistributeData(st.data_shards, active, node_id, order),
                !.service_assignments =
                    ReassignServices(st.service_assignments, active, node_id, pick),
                !.node_health = IF node_id \in DOMAIN st.node_health
                                THEN DictPop(st.node_health, node_id)
                                ELSE st.node_health,
                !.churn = st.churn + 1,
                !.stranded = st.stranded \/ active = {}]
             : order \in Perms(active), pick \in Picks(active, node_id)}

\* add_node(node_id)
AddOutcome(st, node_id) ==
    IF node_id \notin st.active_nodes
    THEN [st EXCEPT !.active_nodes = st.active_nodes \cup {node_id},
                    !.node_health = DictSet(st.node_health, node_id, NewHealth),
                    !.churn = st.churn + 1]
    ELSE st

\* _restore_node(node) for every node of rec
RestoreOutcome(st, rec) ==
    [st EXCEPT
        !.failed_nodes = [x \in (DOMAIN st.failed_nodes) \ rec |-> st.failed_nodes[x]],
        !.active_nodes = st.active_nodes \cup rec,
        !.node_health = HealthOnRestore(st.node_health, rec)]

\* _check_node_recovery(current_time): one state for every set of candidates
\* whose ping succeeds
RecoveryOutcomes(st, current_time) ==
    {RestoreOutcome(st, rec) :
        rec \in SUBSET RecoveryCandidates(st.failed_nodes, current_time)}

\* _cleanup_old_failures(), which reads time.time() = t itself
CleanupOutcome(st, t) ==
    [st EXCEPT !.failed_nodes =
        [x \in (DOMAIN st.failed_nodes) \ OldFailures(st.failed_nodes, t)
            |-> st.failed_nodes[x]]]

\* the nodes of `todo` fail one after the other, in every order
RECURSIVE FailAll(_, _, _)
FailAll(st, todo, t) ==
    IF todo = {} THEN {st}
    ELSE UNION {UNION {FailAll(st2, todo \ {n}, t) : st2 \in FailureOutcomes(st, n, t)}
                : n \in todo}

\* the ping loop of _monitor_loop over list(self.active_nodes): the nodes of
\* `down` do not answer and fail in the order the list gives them, the
\* others get _update_node_health (which touches only their own entry)
PingOutcomes(st, down, t) ==
    LET up == st.active_nodes \ down
        refreshed == [st EXCEPT !.node_health =
                        [x \in DOMAIN st.node_health |->
                            IF x \in up THEN UpdateNodeHealth(st.node_health, x)[x]
                            ELSE st.node_health[x]]]
    IN FailAll(refreshed, down, t)

\* the periodic cleanup of _monitor_loop
TickCleanup(st, t) ==
    IF t % CleanupPeriod < HealthCheckInterval THEN CleanupOutcome(st, t) ELSE st

\* one pass of the body of _monitor_loop at time t
TickOutcomes(st, t) ==
    UNION {UNION {{TickCleanup(st3, t) : st3 \in RecoveryOutcomes(st2, t)}
                  : st2 \in PingOutcomes(st, down, t)}
           : down \in {d \in SUBSET st.active_nodes :
                          st.churn + Cardinality(d) <= MaxChurn}}

mon_vars == <<mon_pc, mon_queue>>

\* handle_node_failure(node)
HandleNodeFailure(node) ==
    /\ mon_pc = "idle"
    /\ churn < MaxChurn
    /\ \E st \in FailureOutcomes(Self, node, now) : Becomes(st)
    /\ UNCHANGED <<now, mon_vars, rd_vars, not_p2p_vars>>

\* add_node(node_id)
AddNode(node_id) ==
    /\ mon_pc = "idle"
    /\ churn < MaxChurn
    /\ Becomes(AddOutcome(Self, node_id))
    /\ UNCHANGED <<now, mon_vars, rd_vars, not_p2p_vars>>

\* remove_node(node_id)
RemoveNode(node_id) ==
    /\ mon_pc = "idle"
    /\ churn < MaxChurn
    /\ \E st \in RemoveOutcomes(Self, node_id) : Becomes(st)
    /\ UNCHANGED <<now, mon_vars, rd_vars, not_p2p_vars>>

\* _check_node_recovery(time.time()) called on its own
CheckNodeRecovery ==
    /\ mon_pc = "idle"
    /\ \E st \in RecoveryOutcomes(Self, now) : Becomes(st)
    /\ UNCHANGED <<now, mon_vars, rd_vars, not_p2p_vars>>

\* _cleanup_old_failures() called on its own
CleanupOldFailures ==
    /\ mon_pc = "idle"
    /\ Becomes(CleanupOutcome(Self, now))
    /\ UNCHANGED <<now, mon_vars, rd_vars, not_p2p_vars>>

\* one whole tick of _monitor_loop, run with no other operation under way
MonitorTick ==
    /\ mon_pc = "idle"
    /\ \E st \in TickOutcomes(Self, now) : Becomes(st)
    /\ UNCHANGED <<now, mon_vars, rd_vars, not_p2p_vars>>

\* time passes while no operation runs
AdvanceTime ==
    /\ mon_pc = "idle"
    /\ now < MaxTicks * TimeStep
    /\ now' = now + TimeStep
    /\ UNCHANGED <<membership_vars, mon_vars, rd_vars, not_p2p_vars>>

\* one whole tick of _monitor_loop in which the nodes of `down` do not
\* answer the health ping and those of `answers` would answer the ping of
\* _check_node_recovery; rec_last keeps failed_nodes as the recovery check
\* found it
MonitorTickWith(down, answers) ==
    /\ mon_pc = "idle"
    /\ churn + Cardinality(down) <= MaxChurn
    /\ \E st2 \in PingOutcomes(Self, down, now) :
         LET rec == answers \cap RecoveryCandidates(st2.failed_nodes, now)
         IN /\ Becomes(TickCleanup(RestoreOutcome(st2, rec), now))
            /\ rec_last' = [flip |-> ~rec_last.flip,
                            failed |-> st2.failed_nodes,
                            answers |-> answers \cap DOMAIN st2.failed_nodes]
    /\ UNCHANGED <<now, mon_vars, rd_vars, life_vars, race_vars, ota_vars,
                   lora_vars, sec_vars>>

\* recovery_timeout seconds pass while no operation runs
RecoveryClock ==
    /\ mon_pc = "idle"
    /\ now < MaxRecoveryTicks * RecoveryTimeout
    /\ now' = now + RecoveryTimeout
    /\ UNCHANGED <<membership_vars, mon_vars, rd_vars, not_p2p_vars>>

\* failures, additions and removals between the ticks of the monitor, on a
\* clock that moves by recovery_timeout
RecoveryNext ==
    \/ \E n \in Nodes : HandleNodeFailure(n)
    \/ \E n \in Nodes : AddNode(n)
    \/ \E n \in Nodes : RemoveNode(n)
    \/ \E down \in SUBSET active_nodes :
         \E answers \in SUBSET (down \cup DOMAIN failed_nodes) :
         MonitorTickWith(down, answers)
    \/ RecoveryClock

\* remove_node(node_id), the node noted as removed when the call returns
RemoveNodeCall(node_id) ==
    /\ mon_pc = "idle"
    /\ \E st \in RemoveOutcomes(Self, node_id) :
          /\ st.churn <= MaxChurn
          /\ Becomes(st)
    /\ removed' = removed \cup {node_id}
    /\ UNCHANGED <<now, mon_vars, rd_vars, rec_vars, life_vars, hnf, ota_vars,
                   lora_vars, sec_vars>>

\* add_node(node_id), the node no longer noted as removed
AddNodeCall(node_id) ==
    /\ mon_pc = "idle"
    /\ AddOutcome(Self, node_id).churn <= MaxChurn
    /\ Becomes(AddOutcome(Self, node_id))
    /\ removed' = removed \ {node_id}
    /\ UNCHANGED <<now, mon_vars, rd_vars, rec_vars, life_vars, hnf, ota_vars,
                   lora_vars, sec_vars>>

\* failures, removals and additions between the ticks of the monitor
RemovalNext ==
    \/ \E n \in Nodes : HandleNodeFailure(n)
    \/ \E n \in Nodes : RemoveNodeCall(n)
    \/ \E n \in Nodes : AddNodeCall(n)
    \/ \E answers \in SUBSET DOMAIN failed_nodes : MonitorTickWith({}, answers)
    \/ RecoveryClock

\* the calls that take nodes out of the network and bring them in
ChurnNext ==
    \/ \E n \in Nodes : HandleNodeFailure(n)
    \/ \E n \in Nodes : AddNode(n)
    \/ \E n \in Nodes : RemoveNode(n)

P2PNext ==
    \/ \E n \in Nodes : HandleNodeFailure(n)
    \/ \E n \in Nodes : AddNode(n)
    \/ \E n \in Nodes : RemoveNode(n)
    \/ CheckNodeRecovery
    \/ CleanupOldFailures
    \/ MonitorTick
    \/ AdvanceTime


----------------------------------------------------------------------------
\* ChurnMitigation: the monitor thread and a caller of get_health_metrics
\* running side by side.  The object has no lock, so the reader's loads of
\* active_nodes and failed_nodes interleave with the statements of the tick.

\* _monitor_loop: current_time = time.time(); list(self.active_nodes)
MonitorBegin ==
    /\ mon_pc = "idle"
    /\ mon_pc' = "ping"
    /\ mon_queue' = active_nodes
    /\ tick_pre' = Counts(active_nodes, failed_nodes)
    /\ tick_seen' = {}
    /\ rd_obs' = [rd_obs EXCEPT !.in_tick = FALSE]
    /\ UNCHANGED <<membership_vars, now, rd_pc, tick_post, not_p2p_vars>>

\* _monitor_loop: one iteration of the ping loop; `answers` is the result
\* of _ping_node(node)
MonitorPing(node, answers) ==
    /\ mon_pc = "ping"
    /\ node \in mon_queue
    /\ mon_queue' = mon_queue \ {node}
    /\ IF answers
       THEN Becomes([Self EXCEPT !.node_health = UpdateNodeHealth(node_health, node)])
       ELSE /\ churn < MaxChurn
            /\ \E st \in FailureOutcomes(Self, node, now) : Becomes(st)
    /\ UNCHANGED <<now, mon_pc, rd_vars, not_p2p_vars>>

\* _monitor_loop: self._check_node_recovery(current_time)
MonitorRecovery ==
    /\ mon_pc = "ping"
    /\ mon_queue = {}
    /\ mon_pc' = "cleanup"
    /\ \E st \in RecoveryOutcomes(Self, now) : Becomes(st)
    /\ UNCHANGED <<now, mon_queue, rd_vars, not_p2p_vars>>

\* _monitor_loop: the periodic cleanup, then the sleep until the next tick
MonitorCleanup ==
    /\ mon_pc = "cleanup"
    /\ mon_pc' = "idle"
    /\ LET st == TickCleanup(Self, now)
       IN /\ Becomes(st)
          /\ tick_post' = Counts(st.active_nodes, st.failed_nodes)
    /\ rd_obs' = [rd_obs EXCEPT !.in_tick = FALSE]
    /\ UNCHANGED <<now, mon_queue, rd_pc, tick_pre, tick_seen, not_p2p_vars>>

----------------------------------------------------------------------------
\* ChurnMitigation: start_health_monitor, stop_health_monitor and the
\* thread that runs _monitor_loop.  The calls come one after the other from
\* one caller; the thread runs beside it.

other_vars == <<p2p_vars, rd_vars, rec_vars, race_vars, ota_vars, lora_vars,
                sec_vars>>

\* start_health_monitor()
StartMonitor ==
    /\ life.caller = "idle"
    /\ life.calls < MaxCalls
    /\ life.created < MaxStarts
    /\ life' = [StartHealthMonitor(life) EXCEPT !.calls = @ + 1]
    /\ UNCHANGED other_vars

\* stop_health_monitor(): self._stop_event.set(), then the join when there
\* is a thread
StopMonitor ==
    /\ life.caller = "idle"
    /\ life.calls < MaxCalls
    /\ life' = [life EXCEPT !.stop_event = TRUE,
                            !.calls = @ + 1,
                            !.signal_pc = IF life.thread \in life.live
                                          THEN mon_pc ELSE "none",
                            !.caller = IF life.thread # 0 THEN "join" ELSE "idle"]
    /\ UNCHANGED other_vars

\* stop_health_monitor(): self._monitor_thread.join() returns
StopJoined ==
    /\ life.caller = "join"
    /\ life.thread \notin life.live
    /\ life' = [life EXCEPT !.caller = "idle"]
    /\ UNCHANGED other_vars

\* _monitor_loop: `while not self._stop_event.is_set()` lets the thread in,
\* at the start or after the sleep, and the tick begins
MonitorEnter ==
    /\ life.thread \in life.live
    /\ ~life.stop_event
    /\ MonitorBegin

\* _monitor_loop: the event is found set, in the sleep loop or at the
\* `while`, and the thread ends
MonitorExit ==
    /\ life.thread \in life.live
    /\ mon_pc = "idle"
    /\ life.stop_event
    /\ life' = [life EXCEPT !.live = @ \ {life.thread}]
    /\ UNCHANGED other_vars

\* the steps of the thread inside a tick
MonitorBody ==
    \/ \E n \in Nodes : \E answers \in BOOLEAN : MonitorPing(n, answers)
    \/ MonitorRecovery
    \/ MonitorCleanup

MonitorLifeNext ==
    \/ StartMonitor
    \/ StopMonitor
    \/ StopJoined
    \/ MonitorEnter
    \/ MonitorExit
    \/ MonitorBody
    \/ AdvanceTime

\* get_health_metrics: recent_failures and recovery_rate
GetHealthMetricsRate ==
    /\ rd_pc = "idle"
    /\ rd_pc' = "active"
    /\ rd_obs' = [NoObs EXCEPT
                    !.in_tick = (mon_pc # "idle"),
                    !.recovery_rate = RecoveryRate(failure_history, active_nodes, now)]
    /\ UNCHANGED <<p2p_vars, tick_pre, tick_post, tick_seen, not_p2p_vars>>

\* get_health_metrics: "active_nodes": len(self.active_nodes)
GetHealthMetricsActive ==
    /\ rd_pc = "active"
    /\ rd_pc' = "failed"
    /\ rd_obs' = [rd_obs EXCEPT !.active_nodes = Cardinality(active_nodes)]
    /\ UNCHANGED <<p2p_vars, tick_pre, tick_post, tick_seen, not_p2p_vars>>

\* get_health_metrics: "failed_nodes": len(self.failed_nodes)
GetHealthMetricsFailed ==
    /\ rd_pc = "failed"
    /\ rd_pc' = "total"
    /\ rd_obs' = [rd_obs EXCEPT !.failed_nodes = Cardinality(DOMAIN failed_nodes)]
    /\ UNCHANGED <<p2p_vars, tick_pre, tick_post, tick_seen, not_p2p_vars>>

\* get_health_metrics: "total_nodes": len(self.active_nodes) +
\* len(self.failed_nodes), and the return of the report
GetHealthMetricsTotal ==
    /\ rd_pc = "total"
    /\ rd_pc' = "idle"
    /\ LET report == [active_nodes |-> rd_obs.active_nodes,
                      failed_nodes |-> rd_obs.failed_nodes,
                      total_nodes |-> Cardinality(active_nodes)
                                        + Cardinality(DOMAIN failed_nodes)]
       IN tick_seen' = IF rd_obs.in_tick /\ mon_pc # "idle"
                       THEN tick_seen \cup {report}
                       ELSE tick_seen
    /\ rd_obs' = NoObs
    /\ UNCHANGED <<p2p_vars, tick_pre, tick_post, not_p2p_vars>>

P2PConcNext ==
    \/ MonitorBegin
    \/ \E n \in Nodes : \E answers \in BOOLEAN : MonitorPing(n, answers)
    \/ MonitorRecovery
    \/ MonitorCleanup
    \/ GetHealthMetricsRate
    \/ GetHealthMetricsActive
    \/ GetHealthMetricsFailed
    \/ GetHealthMetricsTotal
    \/ \E n \in Nodes : AddNode(n)
    \/ AdvanceTime

----------------------------------------------------------------------------
\* ChurnMitigation: the monitor thread and a caller of handle_node_failure,
\* both in _handle_node_failure.  The method takes no lock: the test of
\* active_nodes, the removal from it and the rest of the method are steps
\* the other thread can run between.

\* _handle_node_failure(node, failure_time) is entered: by the monitor for
\* a node of its ping round that did not answer, by the caller for any node
EnterHandleNodeFailure(t, node) ==
    /\ hnf[t].pc = "idle"
    /\ t = "monitor" => node \in active_nodes
    /\ hnf' = [hnf EXCEPT ![t] = [pc |-> "test", node |-> node]]
    /\ UNCHANGED <<p2p_vars, rd_vars, rec_vars, life_vars, removed, ota_vars,
                   lora_vars, sec_vars>>

\* `if node in self.active_nodes:`, and the return when it is not
TestActive(t) ==
    /\ hnf[t].pc = "test"
    /\ hnf' = [hnf EXCEPT ![t].pc = IF hnf[t].node \in active_nodes
                                     THEN "remove" ELSE "returned"]
    /\ UNCHANGED <<p2p_vars, rd_vars, rec_vars, life_vars, removed, ota_vars,
                   lora_vars, sec_vars>>

\* `self.active_nodes.remove(node)`: set.remove raises KeyError for an
\* element that is not in the set
RemoveActive(t) ==
    /\ hnf[t].pc = "remove"
    /\ IF hnf[t].node \in active_nodes
       THEN /\ Becomes([Self EXCEPT !.active_nodes = @ \ {hnf[t].node}])
            /\ hnf' = [hnf EXCEPT ![t].pc = "rest"]
       ELSE /\ hnf' = [hnf EXCEPT ![t].pc = "raised"]
            /\ UNCHANGED membership_vars
    /\ UNCHANGED <<now, mon_vars, rd_vars, rec_vars, life_vars, removed,
                   ota_vars, lora_vars, sec_vars>>

\* the rest of the method: failed_nodes, node_health, failure_history, the
\* redistribution, the reassignment and the routes
RecordFailure(t) ==
    /\ hnf[t].pc = "rest"
    /\ \E st \in FailureOutcomes([Self EXCEPT !.active_nodes = @ \cup {hnf[t].node}],
                                 hnf[t].node, now) : Becomes(st)
    /\ hnf' = [hnf EXCEPT ![t].pc = "returned"]
    /\ UNCHANGED <<now, mon_vars, rd_vars, rec_vars, life_vars, removed,
                   ota_vars, lora_vars, sec_vars>>

FailureRaceNext ==
    \E t \in FailureThreads :
        \/ \E node \in Nodes : EnterHandleNodeFailure(t, node)
        \/ TestActive(t)
        \/ RemoveActive(t)
        \/ RecordFailure(t)

----------------------------------------------------------------------------
\* FederatedModelUpdater: files, diffs and the pure parts of the operations

\* b"MODL"
Magic == <<77, 79, 68, 76>>

\* the model file the server publishes as version v: magic, then a payload
ModelOf(v) == Magic \o <<v, 0, 0, 0>>

NoFile == [exists |-> FALSE, data |-> <<>>]
FileOf(data) == [exists |-> TRUE, data |-> data]

\* the first half of data: what a write that stops half way leaves behind
FirstHalf(data) == SubSeq(data, 1, Len(data) \div 2)

\* _verify_model_integrity(model_data)
VerifyModelIntegrity(model_data) ==
    IF Len(model_data) = 0 THEN FALSE
    ELSE IF Len(model_data) < 8 THEN FALSE
    ELSE IF SubSeq(model_data, 1, 4) # Magic THEN FALSE
    ELSE TRUE

\* bsdiff4.patch(current_model, diff_data) for a diff of one control block:
\* `add` is added bytewise to the old data, `extra` is appended.  A diff
\* whose header does not parse (corrupt) makes bsdiff4.patch raise.
Patch(current_model, diff_data) ==
    [i \in 1..Len(diff_data.add) |->
        ((IF i <= Len(current_model) THEN current_model[i] ELSE 0)
            + diff_data.add[i]) % 256]
    \o diff_data.extra

\* the diff the server builds between two published versions
GoodDiff(from, to) ==
    [corrupt |-> FALSE, add |-> <<0, 0, 0, 0, (to - from) % 256, 0, 0, 0>>,
     extra |-> <<>>]

\* the diffs a download can store: the right one, one whose result is a
\* byte short, one that breaks the magic number, one with an empty result,
\* and one that is not a bsdiff file
DiffsFor(from, to) ==
    {GoodDiff(from, to),
     [corrupt |-> FALSE, add |-> <<0, 0, 0, 0, (to - from) % 256, 0, 0>>, extra |-> <<>>],
     [corrupt |-> FALSE, add |-> <<1, 0, 0, 0, (to - from) % 256, 0, 0, 0>>, extra |-> <<>>],
     [corrupt |-> FALSE, add |-> <<>>, extra |-> <<>>],
     [corrupt |-> TRUE, add |-> <<>>, extra |-> <<>>]}

\* how the file operations of one _apply_patch call go:
\*   backup    shutil.copy2 in _create_backup works, fails leaving nothing,
\*             or fails leaving the part of the copy it had written
\*   write     f.write(patched_model) works or stops half way
\*   rm_diff   os.remove(diff_path) raises
\*   rm_backup os.remove(backup_path) raises
\* The copy that restores the backup in the except branch always completes.
\* Only the first operation that fails after the backup matters: one record
\* stands for each distinct course.
Faults ==
    {f \in [backup : {"ok", "none", "partial"}, write : {"ok", "partial"},
             rm_diff : BOOLEAN, rm_backup : BOOLEAN] :
        /\ f.write = "partial" => ~f.rm_diff /\ ~f.rm_backup
        /\ f.rm_diff => ~f.rm_backup}

NoFault == [backup |-> "ok", write |-> "ok", rm_diff |-> FALSE, rm_backup |-> FALSE]

\* _create_backup(): the backup directory afterwards and the path returned
\* (made = FALSE stands for None)
CreateBackup(model, bks, version, t, fault) ==
    LET whole == [version |-> version, mtime |-> t, data |-> model.data]
        part == [version |-> version, mtime |-> t,
                 data |-> FirstHalf(model.data)]
        same_name == {b \in bks : b.version = version /\ b.mtime = t}
    IN IF ~model.exists THEN [made |-> FALSE, path |-> whole, backups |-> bks]
       ELSE IF fault.backup = "ok"
            THEN [made |-> TRUE, path |-> whole,
                  backups |-> (bks \ same_name) \cup {whole}]
       ELSE IF fault.backup = "partial"
            THEN [made |-> FALSE, path |-> whole,
                  backups |-> (bks \ same_name) \cup {part}]
       ELSE [made |-> FALSE, path |-> whole, backups |-> bks]

\* the except branch of _apply_patch: restore the backup when there is one
RestoreBackup(model, bk) ==
    IF bk.made /\ bk.path \in bk.backups THEN FileOf(bk.path.data) ELSE model

\* what _apply_patch leaves: the model file, the backups, the exception
\* raised ("" when it returns), and the patched bytes when it got that far.
\* os.remove(diff_path) comes after every check and before the removal of
\* the backup: the diff file is gone only when the call returns or fails in
\* os.remove(backup_path).
PatchResult(model, bks, raised, got, patched) ==
    [model |-> model, backups |-> bks, raised |-> raised,
     has_patched |-> got, patched |-> patched,
     diff_left |-> raised \notin {"", "rm_backup"}]

\* _apply_patch that writes the patched model before it verifies it
ApplyPatch_WriteFirst(model, bks, version, t, diff_data, fault) ==
    LET bk == CreateBackup(model, bks, version, t, fault)
        patched == Patch(model.data, diff_data)
    IN IF ~model.exists
       THEN PatchResult(RestoreBackup(model, bk), bk.backups, "read", FALSE, <<>>)
       ELSE IF diff_data.corrupt
       THEN PatchResult(RestoreBackup(model, bk), bk.backups, "patch", FALSE, <<>>)
       ELSE IF fault.write = "partial"
       THEN PatchResult(RestoreBackup(FileOf(FirstHalf(patched)), bk),
                        bk.backups, "write", TRUE, patched)
       ELSE IF ~VerifyModelIntegrity(patched)
       THEN PatchResult(RestoreBackup(FileOf(patched), bk), bk.backups,
                        "verify", TRUE, patched)
       ELSE IF Len(patched) = 0
       THEN PatchResult(RestoreBackup(FileOf(patched), bk), bk.backups,
                        "empty", TRUE, patched)
       ELSE IF fault.rm_diff
       THEN PatchResult(RestoreBackup(FileOf(patched), bk), bk.backups,
                        "rm_diff", TRUE, patched)
       ELSE IF bk.made /\ fault.rm_backup
       THEN PatchResult(RestoreBackup(FileOf(patched), bk), bk.backups,
                        "rm_backup", TRUE, patched)
       ELSE PatchResult(FileOf(patched),
                        IF bk.made THEN bk.backups \ {bk.path} ELSE bk.backups,
                        "", TRUE, patched)

\* _apply_patch(diff_path) on the model file `model` with backups `bks`,
\* at version `version` and time t
ApplyPatch(model, bks, version, t, diff_data, fault) ==
    LET bk == CreateBackup(model, bks, version, t, fault)
        patched == Patch(model.data, diff_data)
    IN IF ~model.exists
       THEN PatchResult(RestoreBackup(model, bk), bk.backups, "read", FALSE, <<>>)
       ELSE IF diff_data.corrupt
       THEN PatchResult(RestoreBackup(model, bk), bk.backups, "patch", FALSE, <<>>)
       ELSE IF ~VerifyModelIntegrity(patched)
       THEN PatchResult(RestoreBackup(model, bk), bk.backups, "verify", TRUE, patched)
       ELSE IF fault.write = "partial"
       THEN PatchResult(RestoreBackup(FileOf(FirstHalf(patched)), bk),
                        bk.backups, "write", TRUE, patched)
       ELSE IF Len(patched) = 0
       THEN PatchResult(RestoreBackup(FileOf(patched), bk), bk.backups,
                        "empty", TRUE, patched)
       ELSE IF fault.rm_diff
       THEN PatchResult(RestoreBackup(FileOf(patched), bk), bk.backups,
                        "rm_diff", TRUE, patched)
       ELSE IF bk.made /\ fault.rm_backup
       THEN PatchResult(RestoreBackup(FileOf(patched), bk), bk.backups,
                        "rm_backup", TRUE, patched)
       ELSE PatchResult(FileOf(patched),
                        IF bk.made THEN bk.backups \ {bk.path} ELSE bk.backups,
                        "", TRUE, patched)

\* the version test of check_for_updates written as "differs from"
IsNewer_Differs(latest_version, version) == latest_version # version

\* check_for_updates: latest_version > self.current_version
IsNewer(latest_version, version) == latest_version > version

\* _save_version_history that writes the file without the new entry
SaveVersionHistory_NoAppend(history, version) ==
    IF Len(history) > MaxRollbackVersions
    THEN SubSeq(history, Len(history) - MaxRollbackVersions + 1, Len(history))
    ELSE history

\* _save_version_history that never cuts the list
SaveVersionHistory_Untruncated(history, version) == Append(history, version)

\* _save_version_history(): the entry appended, the list cut to its tail
SaveVersionHistory(history, version) ==
    LET h == Append(history, version)
    IN IF Len(h) > MaxRollbackVersions
       THEN SubSeq(h, Len(h) - MaxRollbackVersions + 1, Len(h))
       ELSE h

\* check_for_updates without the test of the download: the call goes on to
\* _apply_patch whether or not the diff arrived
Stage_DownloadUnchecked(reachable, newer, resources, download) ==
    IF ~reachable THEN "request"
    ELSE IF ~newer THEN "current"
    ELSE IF ~resources THEN "resources"
    ELSE "patch"

\* check_for_updates: the step at which the call ends.  The version request
\* raises ("request"), the server has nothing newer ("current"), the device
\* lacks resources ("resources"), _download_model_diff raises ("download"),
\* or the call reaches _apply_patch ("patch").
Stage(reachable, newer, resources, download) ==
    IF ~reachable THEN "request"
    ELSE IF ~newer THEN "current"
    ELSE IF ~resources THEN "resources"
    ELSE IF ~download THEN "download"
    ELSE "patch"

\* rollback_to_version: the files matching model_v<target>_*.bak
BackupFiles(bks, target_version) == {b \in bks : b.version = target_version}

\* rollback_to_version taking the oldest matching backup
LatestBackup_Oldest(files) == CHOOSE b \in files : \A c \in files : b.mtime <= c.mtime

\* max(backup_files, key=st_mtime)
LatestBackup(files) == CHOOSE b \in files : \A c \in files : c.mtime <= b.mtime

----------------------------------------------------------------------------
\* FederatedModelUpdater: initial state and operations

Versions == 0..MaxVersion
Threads == {1, 2}

NoOp == [op |-> "none", answered |-> FALSE, latest |-> 0, pre_version |-> 0, pre_model |-> NoFile,
         called |-> FALSE, raised |-> "", has_patched |-> FALSE,
         patched |-> <<>>, backup_made |-> FALSE, backup |-> {}, result |-> FALSE,
         pre_history |-> <<>>, network_error |-> "", diff_left |-> FALSE,
         outcome |-> "false"]

IdleCall == [pc |-> "idle", latest |-> 0, from |-> 0,
             diff |-> GoodDiff(0, 0), patched |-> FALSE, overlap |-> FALSE]

\* FederatedModelUpdater(node_id, current_version = v) on a model file that
\* is the published model of version v or is not there yet
OTAInitWith(v, file) ==
    /\ current_version = v
    /\ model_file = file
    /\ backups = {}
    /\ version_history = <<>>
    /\ ota_clock = 0
    /\ ota_last = NoOp
    /\ upd = [t \in Threads |-> IdleCall]
    /\ both_patched = FALSE

OTAInit ==
    \E v \in {0, 1} : \E file \in {NoFile, FileOf(ModelOf(v))} : OTAInitWith(v, file)

\* the lists _save_version_history can have left in version_history.json
SavedHistories ==
    UNION {[1..n -> 1..MaxVersion] : n \in 0..MaxRollbackVersions}

\* FederatedModelUpdater(node_id, current_version = v) with a backup
\* directory that already holds a version_history.json, which
\* _load_version_history reads; current_version comes from the caller
OTAInitLoaded ==
    /\ \E v \in {0, 1} : \E file \in {NoFile, FileOf(ModelOf(v))} :
          /\ current_version = v
          /\ model_file = file
    /\ backups = {}
    /\ version_history \in SavedHistories
    /\ ota_clock = 0
    /\ ota_last = NoOp
    /\ upd = [t \in Threads |-> IdleCall]
    /\ both_patched = FALSE

\* check_for_updates(aggregation_server), run from start to end.
\*   reachable  the version request succeeds (else it raises)
\*   response   the version in the server's answer
\*   resources  the result of _check_device_resources
\*   download   _download_model_diff returns (TRUE) or raises
CheckForUpdates(reachable, response, resources, download, diff_data, fault) ==
    /\ ota_clock < MaxOtaOps
    /\ ota_clock' = ota_clock + 1
    /\ \E r \in {ApplyPatch(model_file, backups, current_version, ota_clock,
                            diff_data, fault)} :
       \E bk \in {CreateBackup(model_file, backups, current_version, ota_clock,
                               fault)} :
         LET newer == IsNewer(response, current_version)
             called == Stage(reachable, newer, resources, download) = "patch"
             done == called /\ r.raised = ""
         IN /\ model_file' = IF called THEN r.model ELSE model_file
            /\ backups' = IF called THEN r.backups ELSE backups
            /\ current_version' = IF done THEN response ELSE current_version
            /\ version_history' = IF done
                                  THEN SaveVersionHistory(version_history, response)
                                  ELSE version_history
            /\ ota_last' = [op |-> "check_for_updates",
                            answered |-> reachable,
                            latest |-> IF reachable THEN response ELSE 0,
                            pre_version |-> current_version,
                            pre_model |-> model_file,
                            called |-> called,
                            raised |-> IF called THEN r.raised ELSE "",
                            has_patched |-> called /\ r.has_patched,
                            patched |-> IF called THEN r.patched ELSE <<>>,
                            backup_made |-> called /\ bk.made,
                            backup |-> IF called /\ bk.made THEN {bk.path} ELSE {},
                            result |-> done,
                            pre_history |-> version_history,
                            network_error |->
                                IF ~reachable THEN "request"
                                ELSE IF newer /\ resources /\ ~download
                                THEN "download" ELSE "",
                            diff_left |-> called /\ r.diff_left,
                            \* except Exception: return False -- no exception
                            \* leaves check_for_updates
                            outcome |-> IF done THEN "true" ELSE "false"]
    /\ UNCHANGED <<upd, both_patched>>
    /\ UNCHANGED not_ota_vars

\* rollback_to_version(target_version)
RollbackToVersion(target_version) ==
    /\ ota_clock < MaxOtaOps
    /\ ota_clock' = ota_clock + 1
    /\ LET backup_files == BackupFiles(backups, target_version)
           found == backup_files # {}
       IN /\ model_file' = IF found THEN FileOf(LatestBackup(backup_files).data)
                           ELSE model_file
          /\ current_version' = IF found THEN target_version ELSE current_version
          /\ ota_last' = [NoOp EXCEPT !.op = "rollback_to_version",
                                      !.latest = target_version,
                                      !.pre_version = current_version,
                                      !.pre_model = model_file,
                                      !.pre_history = version_history,
                                      !.result = found,
                                      !.outcome = IF found THEN "true" ELSE "false"]
    /\ UNCHANGED <<backups, version_history, upd, both_patched>>
    /\ UNCHANGED not_ota_vars

OTANext ==
    \* the call ends before _apply_patch: no answer, no resources, no download
    \/ \E response \in Versions :
         \E reachable, resources, download \in BOOLEAN :
           /\ ~(reachable /\ resources /\ download)
           /\ CheckForUpdates(reachable, response, resources, download,
                              GoodDiff(current_version, response), NoFault)
    \* the call gets as far as the version test and, from there, _apply_patch
    \/ \E response \in Versions :
         \E fault \in Faults :
           \E diff_data \in DiffsFor(current_version, response) :
             CheckForUpdates(TRUE, response, TRUE, TRUE, diff_data, fault)
    \/ \E target_version \in Versions : RollbackToVersion(target_version)

\* updates that go through or stop at the version request, and rollbacks
HistoryNext ==
    \/ \E response \in Versions :
         CheckForUpdates(TRUE, response, TRUE, TRUE,
                         GoodDiff(current_version, response), NoFault)
    \/ \E response \in Versions :
         CheckForUpdates(FALSE, response, TRUE, TRUE,
                         GoodDiff(current_version, response), NoFault)
    \/ \E target_version \in Versions : RollbackToVersion(target_version)

----------------------------------------------------------------------------
\* FederatedModelUpdater: two threads calling check_for_updates on the same
\* object.  The method takes no lock; each call is a sequence of steps.

\* check_for_updates: the version request and the test against
\* self.current_version (with _check_device_resources)
UpdCheck(t, reachable, response, resources) ==
    /\ upd[t].pc = "idle"
    /\ ota_clock < MaxOtaOps
    /\ ota_clock' = ota_clock + 1
    /\ upd' = [upd EXCEPT ![t] =
                 IF reachable /\ IsNewer(response, current_version) /\ resources
                 THEN [IdleCall EXCEPT !.pc = "download", !.latest = response,
                                       !.from = current_version]
                 ELSE IdleCall]
    /\ UNCHANGED <<current_version, model_file, backups, version_history,
                   ota_last, both_patched>>
    /\ UNCHANGED not_ota_vars

\* check_for_updates: _download_model_diff(aggregation_server, latest_version)
UpdDownload(t, download, diff_data) ==
    /\ upd[t].pc = "download"
    /\ upd' = [upd EXCEPT ![t] =
                 IF download THEN [@ EXCEPT !.pc = "patch", !.diff = diff_data]
                 ELSE IdleCall]
    /\ UNCHANGED <<current_version, model_file, backups, version_history,
                   ota_clock, ota_last, both_patched>>
    /\ UNCHANGED not_ota_vars

\* check_for_updates: self._apply_patch(diff_path)
UpdApplyPatch(t, fault) ==
    /\ upd[t].pc = "patch"
    /\ \E r \in {ApplyPatch(model_file, backups, current_version, ota_clock,
                            upd[t].diff, fault)} :
         LET other == {u \in Threads \ {t} : upd[u].pc # "idle"}
         IN /\ model_file' = r.model
            /\ backups' = r.backups
            /\ IF r.raised = ""
               THEN /\ upd' = [u \in Threads |->
                                 IF u = t
                                 THEN [upd[u] EXCEPT !.pc = "commit", !.patched = TRUE]
                                 ELSE IF u \in other
                                 THEN [upd[u] EXCEPT !.overlap = TRUE]
                                 ELSE upd[u]]
                    /\ both_patched' = (both_patched \/ upd[t].overlap
                                          \/ \E u \in other : upd[u].patched)
               ELSE /\ upd' = [upd EXCEPT ![t] = IdleCall]
                    /\ UNCHANGED both_patched
    /\ UNCHANGED <<current_version, version_history, ota_clock, ota_last>>
    /\ UNCHANGED not_ota_vars

\* check_for_updates: self.current_version = latest_version and
\* _save_version_history()
UpdCommit(t) ==
    /\ upd[t].pc = "commit"
    /\ current_version' = upd[t].latest
    /\ version_history' = SaveVersionHistory(version_history, upd[t].latest)
    /\ upd' = [upd EXCEPT ![t] = IdleCall]
    /\ UNCHANGED <<model_file, backups, ota_clock, ota_last, both_patched>>
    /\ UNCHANGED not_ota_vars

OTAConcNext ==
    \/ \E t \in Threads : \E response \in Versions :
         \E reachable, resources \in BOOLEAN :
           UpdCheck(t, reachable, response, resources)
    \/ \E t \in Threads : \E download \in BOOLEAN :
         \E diff_data \in DiffsFor(upd[t].from, upd[t].latest) :
           UpdDownload(t, download, diff_data)
    \/ \E t \in Threads : \E fault \in Faults : UpdApplyPatch(t, fault)
    \/ \E t \in Threads : UpdCommit(t)

\* the updater as constructed by default, left alone
OTAQuiet == OTAInitWith(0, NoFile)

----------------------------------------------------------------------------
\* LoraAdaptiveEngine: limits and the pure parts of the operations

\* REGION_LIMITS: max_tx_power and frequency of each region
REGION_LIMITS ==
    [BR |-> [max_tx_power |-> 14, frequency |-> 915],
     EU |-> [max_tx_power |-> 14, frequency |-> 868],
     US |-> [max_tx_power |-> 30, frequency |-> 915],
     AU |-> [max_tx_power |-> 30, frequency |-> 915]]

\* PARAMETER_BOUNDS
PARAMETER_BOUNDS ==
    [spreading_factor |-> [min |-> 7, max |-> 12],
     tx_power |-> [min |-> 5, max |-> 30],
     bandwidth |-> [min |-> 125000, max |-> 500000],
     coding_rate |-> {"4/5", "4/6", "4/7", "4/8"}]

\* packet loss is kept in thousandths, SNR in tenths of a dB
TargetPacketLoss == 5 * 10        \* self.target_packet_loss = 0.05
TargetSnr == 0 - 75               \* self.target_snr = -7.5

\* _validate_config(): the configuration it leaves (the region is known)
ValidateConfig(cfg) ==
    LET region_limits == REGION_LIMITS[cfg.region]
        max_power == region_limits.max_tx_power
    IN [cfg EXCEPT !.frequency = region_limits.frequency,
                   !.tx_power = IF cfg.tx_power > max_power THEN max_power
                                ELSE cfg.tx_power]

\* the exponential moving average of log_metrics, alpha = 0.7
Ema(packet_loss, lost_packets) == (7 * packet_loss + 3 * lost_packets) \div 10

\* _optimize_bandwidth_for_energy()
OptimizeBandwidthForEnergy(cfg) ==
    IF cfg.bandwidth < PARAMETER_BOUNDS.bandwidth.max
    THEN [cfg EXCEPT !.bandwidth = Min(cfg.bandwidth * 2, PARAMETER_BOUNDS.bandwidth.max)]
    ELSE cfg

\* _optimize_bandwidth_for_reliability()
OptimizeBandwidthForReliability(cfg) ==
    IF cfg.bandwidth > PARAMETER_BOUNDS.bandwidth.min
    THEN [cfg EXCEPT !.bandwidth = Max(cfg.bandwidth \div 2, PARAMETER_BOUNDS.bandwidth.min)]
    ELSE cfg

\* the spreading-factor / power branch with the power rule under its own
\* `if`: both rules can apply in one call
AdjustStep_BothRules(cfg, m) ==
    LET sf_rule == m.packet_loss > TargetPacketLoss
                     /\ cfg.spreading_factor < PARAMETER_BOUNDS.spreading_factor.max
        power_rule == m.len > 0 /\ m.snr_last > TargetSnr
                        /\ cfg.tx_power > PARAMETER_BOUNDS.tx_power.min
    IN [config |-> [cfg EXCEPT
                      !.spreading_factor = IF sf_rule THEN @ + 1 ELSE @,
                      !.tx_power = IF power_rule
                                   THEN Min(@ - 2, REGION_LIMITS[cfg.region].max_tx_power)
                                   ELSE @],
        made |-> sf_rule \/ power_rule]

\* the spreading-factor rule starting again from the minimum once the
\* maximum is reached
AdjustStep_SfWraps(cfg, m) ==
    IF m.packet_loss > TargetPacketLoss
    THEN [config |-> [cfg EXCEPT !.spreading_factor =
                         IF @ < PARAMETER_BOUNDS.spreading_factor.max THEN @ + 1
                         ELSE PARAMETER_BOUNDS.spreading_factor.min],
          made |-> TRUE]
    ELSE IF m.len > 0 /\ m.snr_last > TargetSnr
    THEN IF cfg.tx_power > PARAMETER_BOUNDS.tx_power.min
         THEN [config |-> [cfg EXCEPT !.tx_power =
                             Min(cfg.tx_power - 2,
                                 REGION_LIMITS[cfg.region].max_tx_power)],
               made |-> TRUE]
         ELSE [config |-> cfg, made |-> FALSE]
    ELSE [config |-> cfg, made |-> FALSE]

\* adjust_parameters(): the spreading-factor / power branch.  Gives the new
\* configuration and whether an adjustment was made.
AdjustStep(cfg, m) ==
    IF m.packet_loss > TargetPacketLoss
    THEN IF cfg.spreading_factor < PARAMETER_BOUNDS.spreading_factor.max
         THEN [config |-> [cfg EXCEPT !.spreading_factor = @ + 1], made |-> TRUE]
         ELSE [config |-> cfg, made |-> FALSE]
    ELSE IF m.len > 0 /\ m.snr_last > TargetSnr
    THEN IF cfg.tx_power > PARAMETER_BOUNDS.tx_power.min
         THEN [config |-> [cfg EXCEPT !.tx_power =
                             Min(cfg.tx_power - 2,
                                 REGION_LIMITS[cfg.region].max_tx_power)],
               made |-> TRUE]
         ELSE [config |-> cfg, made |-> FALSE]
    ELSE [config |-> cfg, made |-> FALSE]

\* the gate of adjust_parameters without the test of the history
Gated_IntervalOnly(current_time, last_time, history_len) ==
    current_time - last_time < MinAdjustmentInterval

\* adjust_parameters(): the two early returns -- less than
\* min_adjustment_interval since the last adjustment, or fewer than 5 entries
\* in metrics_history
Gated(current_time, last_time, history_len) ==
    \/ current_time - last_time < MinAdjustmentInterval
    \/ history_len < MinHistory

\* adjust_parameters(): the bandwidth branch that follows
AdjustBandwidth(cfg, mode, made) ==
    IF mode = "energy" /\ made THEN OptimizeBandwidthForEnergy(cfg)
    ELSE IF mode = "reliability" /\ made THEN OptimizeBandwidthForReliability(cfg)
    ELSE cfg

----------------------------------------------------------------------------
\* LoraAdaptiveEngine: initial state and operations

Regions == DOMAIN REGION_LIMITS

\* the base_config values the engine is constructed with: legal ones (one
\* of them a step above the power floor), a power above the regional cap, a
\* spreading factor and a bandwidth outside PARAMETER_BOUNDS, and a region
\* REGION_LIMITS does not know
BaseConfigs ==
    {[region |-> "BR", spreading_factor |-> 8, tx_power |-> 6,
      bandwidth |-> 250000, coding_rate |-> "4/5", frequency |-> 0]} \cup
    {[region |-> "EU", spreading_factor |-> 7, tx_power |-> 14,
      bandwidth |-> 125000, coding_rate |-> "4/5", frequency |-> 0],
     [region |-> "US", spreading_factor |-> 11, tx_power |-> 30,
      bandwidth |-> 250000, coding_rate |-> "4/5", frequency |-> 0],
     [region |-> "BR", spreading_factor |-> 12, tx_power |-> 20,
      bandwidth |-> 500000, coding_rate |-> "4/8", frequency |-> 0],
     [region |-> "AU", spreading_factor |-> 13, tx_power |-> 6,
      bandwidth |-> 125000, coding_rate |-> "4/5", frequency |-> 0],
     [region |-> "EU", spreading_factor |-> 9, tx_power |-> 10,
      bandwidth |-> 1000000, coding_rate |-> "4/5", frequency |-> 0],
     [region |-> "XX", spreading_factor |-> 7, tx_power |-> 14,
      bandwidth |-> 125000, coding_rate |-> "4/5", frequency |-> 0]}

NoMetrics == [packet_loss |-> 0, snr_last |-> 0, len |-> 0]

\* the record kept of a step: "__init__", "adjust_parameters" or "other",
\* the value the call returned, and the configuration, adjustment_count and
\* last_adjustment_time it started from
LoraCall(op, returned) ==
    [op |-> op, returned |-> returned, pre_config |-> config,
     pre_count |-> adjustment_count, pre_time |-> last_adjustment_time]

\* LoraAdaptiveEngine(base_config): __init__ raises ValueError for an
\* unknown region (lora_built = FALSE: there is no engine to call)
LoraInitWith(base_config) ==
    /\ lora_built = (base_config.region \in Regions)
    /\ config = IF base_config.region \in Regions
                THEN ValidateConfig(base_config) ELSE base_config
    /\ metrics = NoMetrics
    /\ optimization_mode = "balanced"
    /\ adjustment_count = 0
    /\ last_adjustment_time = 0
    /\ lora_now = MinAdjustmentInterval
    /\ lora_last = LoraCall("__init__", FALSE)

LoraInit == \E base_config \in BaseConfigs : LoraInitWith(base_config)

\* log_metrics(rssi, snr, lost_packets); rssi is stored and never read by
\* an adjustment, the deques are below their maxlen of 100
LogMetrics(snr, lost_packets) ==
    /\ lora_built
    /\ metrics.len < MaxLogs
    /\ metrics' = [packet_loss |-> Ema(metrics.packet_loss, lost_packets),
                   snr_last |-> snr,
                   len |-> metrics.len + 1]
    /\ lora_last' = LoraCall("other", FALSE)
    /\ UNCHANGED <<lora_built, config, optimization_mode, adjustment_count,
                   last_adjustment_time, lora_now>>
    /\ UNCHANGED not_lora_vars

\* adjust_parameters()
AdjustParameters ==
    /\ lora_built
    /\ IF Gated(lora_now, last_adjustment_time, metrics.len)
       THEN /\ UNCHANGED <<config, adjustment_count, last_adjustment_time>>
            /\ lora_last' = LoraCall("adjust_parameters", FALSE)
       ELSE LET a == AdjustStep(config, metrics)
            IN /\ config' = AdjustBandwidth(a.config, optimization_mode, a.made)
               /\ adjustment_count' = IF a.made THEN adjustment_count + 1
                                      ELSE adjustment_count
               /\ last_adjustment_time' = IF a.made THEN lora_now
                                          ELSE last_adjustment_time
               /\ lora_last' = LoraCall("adjust_parameters", a.made)
    /\ UNCHANGED <<lora_built, metrics, optimization_mode, lora_now>>
    /\ UNCHANGED not_lora_vars

\* set_optimization_mode(mode): raises ValueError for an unknown mode
SetOptimizationMode(mode) ==
    /\ lora_built
    /\ optimization_mode' = IF mode \in {"balanced", "energy", "reliability"}
                            THEN mode ELSE optimization_mode
    /\ lora_last' = LoraCall("other", FALSE)
    /\ UNCHANGED <<lora_built, config, metrics, adjustment_count,
                   last_adjustment_time, lora_now>>
    /\ UNCHANGED not_lora_vars

\* reset_metrics()
ResetMetrics ==
    /\ lora_built
    /\ metrics' = NoMetrics
    /\ adjustment_count' = 0
    /\ lora_last' = LoraCall("other", FALSE)
    /\ UNCHANGED <<lora_built, config, optimization_mode,
                   last_adjustment_time, lora_now>>
    /\ UNCHANGED not_lora_vars

\* time passes between two calls
LoraTick ==
    /\ lora_built
    /\ lora_now < MinAdjustmentInterval * (MaxLoraTicks + 1)
    /\ lora_now' = lora_now + MinAdjustmentInterval
    /\ lora_last' = LoraCall("other", FALSE)
    /\ UNCHANGED <<lora_built, config, metrics, optimization_mode,
                   adjustment_count, last_adjustment_time>>
    /\ UNCHANGED not_lora_vars

LoraNext ==
    \/ \E snr \in {0 - 100, 0} : \E lost_packets \in {0, 1000} :
         LogMetrics(snr, lost_packets)
    \/ AdjustParameters
    \/ \E mode \in {"balanced", "energy", "reliability", "turbo"} :
         SetOptimizationMode(mode)
    \/ ResetMetrics
    \/ LoraTick

\* time passes until min_adjustment_interval has gone by since the last
\* adjustment
LoraSettle ==
    /\ lora_built
    /\ lora_now - last_adjustment_time < MinAdjustmentInterval
    /\ lora_now' = last_adjustment_time + MinAdjustmentInterval
    /\ lora_last' = LoraCall("other", FALSE)
    /\ UNCHANGED <<lora_built, config, metrics, optimization_mode,
                   adjustment_count, last_adjustment_time>>
    /\ UNCHANGED not_lora_vars

\* the readings of a good channel and of a bad one: the SNR and the share
\* of packets lost
Channels == {[snr |-> 0, lost_packets |-> 0],
             [snr |-> 0 - 100, lost_packets |-> 1000]}

\* the calls of the engine with no limit on how often adjust_parameters is
\* called or how long the engine runs; the mode is chosen before the first
\* reading
SettleNext ==
    \/ \E channel \in Channels : LogMetrics(channel.snr, channel.lost_packets)
    \/ AdjustParameters
    \/ /\ metrics.len = 0
       /\ last_adjustment_time = 0
       /\ \E mode \in {"energy", "reliability"} : SetOptimizationMode(mode)
    \/ ResetMetrics
    \/ LoraSettle

\* the engine constructed with the first legal configuration, left alone
LoraQuiet ==
    LoraInitWith([region |-> "EU", spreading_factor |-> 7, tx_power |-> 14,
                  bandwidth |-> 125000, coding_rate |-> "4/5", frequency |-> 0])

\* a ChurnMitigation with no node and nothing stored, left alone
P2PQuiet ==
    /\ active_nodes = {}
    /\ failed_nodes = <<>>
    /\ data_shards = <<>>
    /\ service_assignments = <<>>
    /\ routing_table = <<>>
    /\ node_health = <<>>
    /\ failure_history = <<>>
    /\ now = 0
    /\ mon_pc = "idle"
    /\ mon_queue = {}
    /\ churn = 0
    /\ stranded = FALSE
    /\ rd_pc = "idle"
    /\ rd_obs = NoObs
    /\ tick_pre = Counts({}, <<>>)
    /\ tick_post = Counts({}, <<>>)
    /\ tick_seen = {}
    /\ rec_last = NoCheck
    /\ life = NoMonitor
    /\ hnf = NoFailureCalls
    /\ removed = {}

----------------------------------------------------------------------------
\* NNISSystem (security/nnis_system.py)
\*
\* activation_threshold, memory_strength and stimulus are in hundredths;
\* the confidence of an antigen is in ten-thousandths, the unit in which the
\* product stimulus * memory_strength of a memory cell is exact.

\* the specializations the constructor cycles through
Specializations ==
    <<"network_anomaly", "malware_detection", "ddos_attack", "data_exfiltration",
      "privilege_escalation", "sql_injection", "cross_site_scripting",
      "brute_force_attack", "phishing_attempt", "zero_day_exploit">>

\* threshold_mapping.get(specialization, 0.7)
ThresholdMapping(specialization) ==
    CASE specialization \in {"network_anomaly", "cross_site_scripting",
                             "phishing_attempt"} -> 60
      [] specialization \in {"malware_detection", "sql_injection",
                             "brute_force_attack"} -> 70
      [] specialization \in {"ddos_attack", "privilege_escalation"} -> 80
      [] specialization \in {"data_exfiltration", "zero_day_exploit"} -> 90
      [] OTHER -> 70

create_immune_cell(cell_type, specialization) ==
    [cell_type |-> cell_type,
     specialization |-> specialization,
     activation_threshold |-> ThresholdMapping(specialization),
     memory_strength |-> IF cell_type = "memory" THEN 50 ELSE 30]

\* the loop of _initialize_immune_cells for one kind of cell
InitialCells(cell_type, count) ==
    [i \in 1..count |->
        create_immune_cell(cell_type,
                           Specializations[((i - 1) % Len(Specializations)) + 1])]

\* ImmuneCell.learn without its min and max
learn_Unclamped(cell, success) ==
    IF success
    THEN [cell EXCEPT !.memory_strength = @ + 10,
                      !.activation_threshold = @ - 5]
    ELSE [cell EXCEPT !.memory_strength = @ - 5,
                      !.activation_threshold = @ + 2]

\* ImmuneCell.learn
learn(cell, success) ==
    IF success
    THEN [cell EXCEPT !.memory_strength = Min(100, @ + 10),
                      !.activation_threshold = Max(10, @ - 5)]
    ELSE [cell EXCEPT !.memory_strength = Max(0, @ - 5),
                      !.activation_threshold = Min(100, @ + 2)]

\* The names that occur, as substrings, in a text the model uses: the test
\* `name in text.lower()` of the source, over the texts and names below.
Mentions(text) ==
    CASE text = "network_anomaly" -> {"network_anomaly"}
      [] text = "malware_detection" -> {"malware", "malware_detection"}
      [] text = "malware_infection" -> {"malware"}
      [] text = "ddos_attack" -> {"ddos", "ddos_attack"}
      [] text = "data_exfiltration" -> {"data_exfiltration"}
      [] text = "privilege_escalation" -> {"privilege_escalation"}
      [] text = "sql_injection" -> {"sql", "sql_injection"}
      [] OTHER -> {}

\* the part of a threat type that names its family
Family(threat_type) ==
    CASE threat_type = "sql_injection" -> "sql"
      [] threat_type = "ddos_attack" -> "ddos"
      [] threat_type = "malware_infection" -> "malware"
      [] OTHER -> threat_type

\* NNISSystem.generate_immune_response
generate_immune_response(antigen) ==
    LET graded ==
            IF antigen.confidence > 9000
            THEN [response_type |-> "block_and_isolate", intensity |-> 100,
                  actions |-> <<"block_ip", "isolate_host", "alert_admin">>]
            ELSE IF antigen.confidence > 7000
            THEN [response_type |-> "rate_limit_and_monitor", intensity |-> 80,
                  actions |-> <<"rate_limit", "monitor_traffic", "alert_admin">>]
            ELSE IF antigen.confidence > 5000
            THEN [response_type |-> "monitor_and_alert", intensity |-> 60,
                  actions |-> <<"monitor_traffic", "alert_admin">>]
            ELSE [response_type |-> "passive_monitoring", intensity |-> 30,
                  actions |-> <<"monitor_traffic">>]
        extra ==
            IF "ddos" \in Mentions(antigen.threat_type)
            THEN <<"enable_ddos_protection", "scale_resources">>
            ELSE IF "malware" \in Mentions(antigen.threat_type)
            THEN <<"scan_system", "quarantine_suspicious">>
            ELSE IF "data_exfiltration" \in Mentions(antigen.threat_type)
            THEN <<"encrypt_sensitive_data", "audit_access">>
            ELSE <<>>
    IN  [graded EXCEPT !.actions = @ \o extra]

\* action_mapping of _determine_specialization_from_response
ActionMapping ==
    [block_ip |-> "network_anomaly",
     isolate_host |-> "malware_detection",
     rate_limit |-> "ddos_attack",
     encrypt_sensitive_data |-> "data_exfiltration",
     scan_system |-> "malware_detection",
     quarantine_suspicious |-> "malware_detection"]

\* NNISSystem._determine_specialization_from_response: the first action
\* that the mapping knows decides
RECURSIVE determine_specialization_from(_, _)
determine_specialization_from(actions, i) ==
    IF i > Len(actions) THEN "network_anomaly"
    ELSE IF actions[i] \in DOMAIN ActionMapping THEN ActionMapping[actions[i]]
    ELSE determine_specialization_from(actions, i + 1)

determine_specialization_from_response(response) ==
    determine_specialization_from(response.actions, 1)


\* list.sort(key=..., reverse=True): the positions 1..n of a list in the
\* order of descending key, equal keys in their original order
RECURSIVE StableOrderDesc(_, _)
StableOrderDesc(keys, n) ==
    IF n = 0 THEN <<>>
    ELSE LET prev == StableOrderDesc(keys, n - 1)
             k == Cardinality({j \in 1..Len(prev) : keys[prev[j]] >= keys[n]})
         IN  SubSeq(prev, 1, k) \o <<n>> \o SubSeq(prev, k + 1, Len(prev))

SortDescBy(list, keys) ==
    LET order == StableOrderDesc(keys, Len(list))
    IN  [i \in 1..Len(list) |-> list[order[i]]]

\* the entries of a list that satisfy a test, in their order
RECURSIVE SelectIdx(_, _, _)
SelectIdx(list, keep, i) ==
    IF i > Len(list) THEN <<>>
    ELSE (IF i \in keep THEN <<list[i]>> ELSE <<>>) \o SelectIdx(list, keep, i + 1)

\* the loop over self.immune_cells of learn_from_response
learn_from_response_cells(cells, response_type, success) ==
    [i \in DOMAIN cells |->
        IF cells[i].specialization \in Mentions(response_type)
        THEN learn(cells[i], success)
        ELSE cells[i]]

\* the results recorded for a response type in a response history, a list of
\* <<response_type, success>>
ResultsOf(response_history, response_type) ==
    {i \in DOMAIN response_history : response_history[i][1] = response_type}

SuccessesOf(response_history, response_type) ==
    {i \in ResultsOf(response_history, response_type) : response_history[i][2]}

\* NNISSystem.optimize_immune_system, on self.immune_cells: np.mean of the
\* results is compared with 0.5 and 0.8
optimize_immune_system(cells, response_history) ==
    [i \in DOMAIN cells |->
        LET results == Cardinality(ResultsOf(response_history, cells[i].specialization))
            good == Cardinality(SuccessesOf(response_history, cells[i].specialization))
        IN  IF results = 0 THEN cells[i]
            ELSE IF 10 * good < 5 * results
            THEN [cells[i] EXCEPT !.activation_threshold = Max(10, @ - 10)]
            ELSE IF 10 * good > 8 * results
            THEN [cells[i] EXCEPT !.activation_threshold = Min(100, @ + 5)]
            ELSE cells[i]]

\* NNISSystem.adapt_to_environment, on self.immune_cells
adapt_to_environment(cells, new_threat_types, threat_complexity) ==
    LET grown == cells \o [i \in DOMAIN new_threat_types |->
                              create_immune_cell("detector", new_threat_types[i])]
    IN  IF threat_complexity = "increasing"
        THEN [i \in DOMAIN grown |->
                 [grown[i] EXCEPT !.activation_threshold = Max(10, @ - 5)]]
        ELSE grown

\* NNISSystem.scale_immune_system, on self.immune_cells
scale_immune_system(cells, threat_frequency, concurrent_attacks) ==
    LET grown == IF threat_frequency = "high"
                 THEN cells \o [i \in 1..AdditionalCells |->
                                   create_immune_cell("detector", "network_anomaly")]
                 ELSE cells
    IN  IF concurrent_attacks > 20
        THEN [i \in DOMAIN grown |->
                 [grown[i] EXCEPT !.activation_threshold = Min(100, @ + 10)]]
        ELSE grown

\* NNISSystem.recover_from_failure, on self.immune_cells
recover_from_failure(cells, immune_cells_count) ==
    LET reset == [i \in DOMAIN cells |->
                     IF cells[i].memory_strength < 10
                     THEN [cells[i] EXCEPT !.memory_strength = 50]
                     ELSE cells[i]]
    IN  IF Len(reset) < immune_cells_count
        THEN reset \o [i \in 1..(immune_cells_count - Len(reset)) |->
                          create_immune_cell("detector", "network_anomaly")]
        ELSE reset

\* NNISSystem.form_memory_cell, on self.memory_cells
form_memory_cell(memory, response, success) ==
    IF ~success THEN memory
    ELSE Append(memory,
                [create_immune_cell("memory",
                                    determine_specialization_from_response(response))
                    EXCEPT !.memory_strength = 80])

\* self.memory_cells.remove(cell) for each cell of a list
RECURSIVE RemoveEach(_, _)
RemoveEach(memory, cells_to_remove) ==
    IF cells_to_remove = <<>> THEN memory
    ELSE RemoveEach(ListRemove(memory, Head(cells_to_remove)), Tail(cells_to_remove))

\* consolidate_memory that keeps the first two cells of a specialization
CellsToRemove_FirstTwo(memory, specialization) ==
    LET cells == SelectIdx(memory,
                           {i \in DOMAIN memory :
                               memory[i].specialization = specialization}, 1)
    IN  IF Len(cells) > 2 THEN SubSeq(cells, 3, Len(cells)) ELSE <<>>

\* the cells consolidate_memory removes for one specialization
CellsToRemove(memory, specialization) ==
    LET cells == SelectIdx(memory,
                           {i \in DOMAIN memory :
                               memory[i].specialization = specialization}, 1)
        sorted == SortDescBy(cells, [i \in DOMAIN cells |-> cells[i].memory_strength])
    IN  IF Len(cells) > 2 THEN SubSeq(sorted, 3, Len(sorted)) ELSE <<>>

\* the first loop of consolidate_memory, over the specializations present
RECURSIVE RemoveRedundant(_, _, _)
RemoveRedundant(memory, groups, specializations) ==
    IF specializations = {} THEN memory
    ELSE LET s == CHOOSE x \in specializations : TRUE
         IN  RemoveRedundant(RemoveEach(memory, CellsToRemove(groups, s)),
                             groups, specializations \ {s})

\* NNISSystem.consolidate_memory, on self.memory_cells
consolidate_memory(memory) ==
    LET kept == RemoveRedundant(memory, memory,
                                {memory[i].specialization : i \in DOMAIN memory})
    IN  [i \in DOMAIN kept |->
            IF kept[i].memory_strength < 30
            THEN [kept[i] EXCEPT !.memory_strength = 50]
            ELSE kept[i]]

\* What detect_antigens reads of network_data: the counters it compares and
\* the words it looks for in str(network_data)
NoData ==
    [packet_count |-> 0, connection_attempts |-> 0, source_ips |-> 0,
     data_transfer_rate |-> 0, suspicious_port |-> FALSE, words |-> {}]

NetworkData ==
    {[NoData EXCEPT !.words = {"suspicious_process"}],
     [NoData EXCEPT !.packet_count = 60000, !.connection_attempts = 60]}

\* NNISSystem._calculate_stimulus
calculate_stimulus(specialization, network_data) ==
    LET If(test, amount) == IF test THEN amount ELSE 0
        stimulus ==
            CASE specialization = "network_anomaly" ->
                     If(network_data.packet_count > 10000, 30)
                     + If(network_data.packet_count > 50000, 40)
                     + If(network_data.connection_attempts > 50, 30)
              [] specialization = "ddos_attack" ->
                     If(network_data.packet_count > 100000, 80)
                     + If(network_data.source_ips > 100, 60)
              [] specialization = "data_exfiltration" ->
                     If(network_data.data_transfer_rate > 10000000, 70)
                     + If(network_data.suspicious_port, 40)
              [] specialization = "malware_detection" ->
                     If("suspicious_process" \in network_data.words, 60)
                     + If("file_creation" \in network_data.words, 40)
              [] OTHER -> 0
    IN  Min(100, stimulus)

\* the loop over self.immune_cells of detect_antigens: ImmuneCell.activate
\* and the antigen of each activated cell
DetectorAntigens(cells, network_data) ==
    LET stimulus(i) == calculate_stimulus(cells[i].specialization, network_data)
        found == {i \in DOMAIN cells : stimulus(i) >= cells[i].activation_threshold}
    IN  SelectIdx([i \in DOMAIN cells |->
                      [threat_type |-> cells[i].specialization,
                       confidence |-> 100 * stimulus(i),
                       source |-> "immune_cell_detection"]],
                  found, 1)

\* NNISSystem._check_memory_cells: the threshold of a memory cell is
\* activation_threshold * (1 - memory_strength * 0.3), its confidence
\* stimulus * memory_strength
check_memory_cells(memory, network_data) ==
    LET stimulus(i) == calculate_stimulus(memory[i].specialization, network_data)
        found == {i \in DOMAIN memory :
                     10000 * stimulus(i) >=
                         memory[i].activation_threshold
                             * (10000 - 30 * memory[i].memory_strength)}
    IN  SelectIdx([i \in DOMAIN memory |->
                      [threat_type |-> memory[i].specialization,
                       confidence |-> stimulus(i) * memory[i].memory_strength,
                       source |-> "memory_cell"]],
                  found, 1)

\* what _detect_with_ai can return: nothing (and nothing else when no
\* pipeline is loaded), or the antigens parsed from the text the model
\* generated
OracleAnswers ==
    {<<>>,
     <<[threat_type |-> "network_anomaly", confidence |-> 9500,
        source |-> "ai_analysis"]>>}

\* NNISSystem._deduplicate_antigens: the first antigen of each threat type
deduplicate_antigens(antigens) ==
    SelectIdx(antigens,
              {i \in DOMAIN antigens :
                  \A j \in 1..(i - 1) : antigens[j].threat_type # antigens[i].threat_type},
              1)

\* the antigens detect_antigens collects, before it removes duplicates
CollectedAntigens(cells, memory, network_data, oracle) ==
    DetectorAntigens(cells, network_data) \o oracle
        \o check_memory_cells(memory, network_data)

\* NNISSystem.detect_antigens
detect_antigens(cells, memory, network_data, oracle) ==
    LET unique == deduplicate_antigens(
                      CollectedAntigens(cells, memory, network_data, oracle))
    IN  SortDescBy(unique, [i \in DOMAIN unique |-> unique[i].confidence])

\* ---- the calls on an NNISSystem ----

\* antigens handed to process_threat
ThreatTypes == {"sql_injection", "malware_infection"}
Confidences == {6000, 9000}

NoAntigen == [threat_type |-> "", confidence |-> 0]

\* responses handed to learn_from_response and form_memory_cell: one that
\* generate_immune_response builds and one built by the caller
CallerResponse ==
    [response_type |-> "network_anomaly", intensity |-> 80,
     actions |-> <<"monitor_traffic", "scan_system">>]

Responses ==
    {generate_immune_response([threat_type |-> "sql_injection", confidence |-> 9500]),
     CallerResponse}

\* response histories handed to optimize_immune_system, as lists of
\* <<response_type, success>>
ResponseHistories ==
    {<<<<"network_anomaly", FALSE>>>>,
     <<<<"network_anomaly", TRUE>>>>}

\* environmental changes handed to adapt_to_environment
EnvironmentalChanges ==
    {[new_threat_types |-> <<"ransomware">>, threat_complexity |-> "medium"],
     [new_threat_types |-> <<>>, threat_complexity |-> "increasing"]}

\* load increases handed to scale_immune_system; a system that has been
\* scaled up is not scaled up again
LoadIncreases ==
    {[threat_frequency |-> "high", concurrent_attacks |-> 10],
     [threat_frequency |-> "medium", concurrent_attacks |-> 21]}

NoCell == [cell_type |-> "", specialization |-> "", activation_threshold |-> 0,
           memory_strength |-> 0]

\* the record of a call: its name, the antigen and the result it was given,
\* the cell a learn call started from, and what detect_antigens was given
\* and returned
NnisCall(op, antigen, success, before, network_data, oracle, returned) ==
    [op |-> op, antigen |-> antigen, success |-> success, before |-> before,
     network_data |-> network_data, oracle |-> oracle, returned |-> returned]

NnisPlain(op, success) ==
    NnisCall(op, NoAntigen, success, NoCell, NoData, <<>>, <<>>)

\* NNISSystem.__init__ with a configuration
NNISInitWith(immune_cells_count, memory_cells_count, memory_size) ==
    /\ immune_cells = InitialCells("detector", immune_cells_count)
    /\ memory_cells = InitialCells("memory", memory_cells_count)
    /\ learning_history = <<>>
    /\ nnis_config = [immune_cells_count |-> immune_cells_count,
                      memory_cells_count |-> memory_cells_count,
                      memory_size |-> memory_size]
    /\ nnis_calls = [system |-> 0, cell |-> 0]
    /\ nnis_last = NnisPlain("init", FALSE)

\* the immune_cells_count and the memory_cells_count of a configuration
CellCounts == {0, 2}

\* systems of every cell population, with the largest learning history
NNISInit ==
    \E immune_cells_count \in CellCounts, memory_cells_count \in CellCounts :
        NNISInitWith(immune_cells_count, memory_cells_count, MaxMemorySize)

\* systems of every memory_size, with two cells of each kind
NNISInitSized ==
    \E memory_size \in 1..MaxMemorySize : NNISInitWith(2, 2, memory_size)

\* cells whose fields are all equal are interchangeable: the first of them
\* stands for the others
FirstOfEquals(cells) ==
    {i \in DOMAIN cells : \A j \in 1..(i - 1) : cells[j] # cells[i]}

\* ImmuneCell.learn called on a detector cell
LearnDetector(i, success) ==
    /\ nnis_calls.cell < MaxLearns
    /\ i \in FirstOfEquals(immune_cells)
    /\ immune_cells' = [immune_cells EXCEPT ![i] = learn(@, success)]
    /\ nnis_calls' = [nnis_calls EXCEPT !.cell = @ + 1]
    /\ nnis_last' = NnisCall("learn", NoAntigen, success, immune_cells[i],
                             NoData, <<>>, <<>>)
    /\ UNCHANGED <<memory_cells, learning_history, nnis_config, not_nnis_vars>>

\* ImmuneCell.learn called on a memory cell
LearnMemory(i, success) ==
    /\ nnis_calls.cell < MaxLearns
    /\ i \in FirstOfEquals(memory_cells)
    /\ memory_cells' = [memory_cells EXCEPT ![i] = learn(@, success)]
    /\ nnis_calls' = [nnis_calls EXCEPT !.cell = @ + 1]
    /\ nnis_last' = NnisCall("learn", NoAntigen, success, memory_cells[i],
                             NoData, <<>>, <<>>)
    /\ UNCHANGED <<immune_cells, learning_history, nnis_config, not_nnis_vars>>

\* the entry learn_from_response appends
LearningEntry(response, success) ==
    [response_type |-> response.response_type, success |-> success]

\* NNISSystem.learn_from_response
LearnFromResponse(response, success) ==
    /\ nnis_calls.system < MaxNnisCalls
    /\ learning_history' = DequeAppend(learning_history,
                                       LearningEntry(response, success),
                                       nnis_config.memory_size)
    /\ immune_cells' = learn_from_response_cells(immune_cells,
                                                 response.response_type, success)
    /\ nnis_calls' = [nnis_calls EXCEPT !.system = @ + 1]
    /\ nnis_last' = NnisPlain("learn_from_response", success)
    /\ UNCHANGED <<memory_cells, nnis_config, not_nnis_vars>>

\* NNISSystem.process_threat: ImmuneResponse.execute reports success for
\* every list of actions
ProcessThreat(antigen) ==
    /\ nnis_calls.system < MaxNnisCalls
    /\ LET response == generate_immune_response(antigen)
           success == TRUE
       IN  /\ learning_history' = DequeAppend(learning_history,
                                              LearningEntry(response, success),
                                              nnis_config.memory_size)
           /\ immune_cells' = learn_from_response_cells(immune_cells,
                                                        response.response_type,
                                                        success)
           /\ memory_cells' = IF success /\ antigen.confidence > 7000
                              THEN form_memory_cell(memory_cells, response, TRUE)
                              ELSE memory_cells
           /\ nnis_last' = NnisCall("process_threat", antigen, success, NoCell,
                                    NoData, <<>>, <<>>)
    /\ nnis_calls' = [nnis_calls EXCEPT !.system = @ + 1]
    /\ UNCHANGED <<nnis_config, not_nnis_vars>>

\* NNISSystem.form_memory_cell
FormMemoryCell(response, success) ==
    /\ nnis_calls.system < MaxNnisCalls
    /\ memory_cells' = form_memory_cell(memory_cells, response, success)
    /\ nnis_calls' = [nnis_calls EXCEPT !.system = @ + 1]
    /\ nnis_last' = NnisPlain("form_memory_cell", success)
    /\ UNCHANGED <<immune_cells, learning_history, nnis_config, not_nnis_vars>>

\* NNISSystem.optimize_immune_system
OptimizeImmuneSystem(response_history) ==
    /\ nnis_calls.system < MaxNnisCalls
    /\ immune_cells' = optimize_immune_system(immune_cells, response_history)
    /\ nnis_calls' = [nnis_calls EXCEPT !.system = @ + 1]
    /\ nnis_last' = NnisPlain("optimize_immune_system", FALSE)
    /\ UNCHANGED <<memory_cells, learning_history, nnis_config, not_nnis_vars>>

\* NNISSystem.adapt_to_environment
AdaptToEnvironment(new_threat_types, threat_complexity) ==
    /\ nnis_calls.system < MaxNnisCalls
    /\ immune_cells' = adapt_to_environment(immune_cells, new_threat_types,
                                            threat_complexity)
    /\ nnis_calls' = [nnis_calls EXCEPT !.system = @ + 1]
    /\ nnis_last' = NnisPlain("adapt_to_environment", FALSE)
    /\ UNCHANGED <<memory_cells, learning_history, nnis_config, not_nnis_vars>>

\* NNISSystem.scale_immune_system
ScaleImmuneSystem(threat_frequency, concurrent_attacks) ==
    /\ nnis_calls.system < MaxNnisCalls
    /\ immune_cells' = scale_immune_system(immune_cells, threat_frequency,
                                           concurrent_attacks)
    /\ nnis_calls' = [nnis_calls EXCEPT !.system = @ + 1]
    /\ nnis_last' = NnisPlain("scale_immune_system", FALSE)
    /\ UNCHANGED <<memory_cells, learning_history, nnis_config, not_nnis_vars>>

\* NNISSystem.recover_from_failure
RecoverFromFailure ==
    /\ nnis_calls.system < MaxNnisCalls
    /\ immune_cells' = recover_from_failure(immune_cells,
                                            nnis_config.immune_cells_count)
    /\ nnis_calls' = [nnis_calls EXCEPT !.system = @ + 1]
    /\ nnis_last' = NnisPlain("recover_from_failure", FALSE)
    /\ UNCHANGED <<memory_cells, learning_history, nnis_config, not_nnis_vars>>

\* NNISSystem.consolidate_memory
ConsolidateMemory ==
    /\ nnis_calls.system < MaxNnisCalls
    /\ memory_cells' = consolidate_memory(memory_cells)
    /\ nnis_calls' = [nnis_calls EXCEPT !.system = @ + 1]
    /\ nnis_last' = NnisPlain("consolidate_memory", FALSE)
    /\ UNCHANGED <<immune_cells, learning_history, nnis_config, not_nnis_vars>>

\* NNISSystem.detect_antigens
DetectAntigens(network_data, oracle) ==
    /\ nnis_calls.system < MaxNnisCalls
    /\ nnis_calls' = [nnis_calls EXCEPT !.system = @ + 1]
    /\ nnis_last' = NnisCall("detect_antigens", NoAntigen, FALSE, NoCell,
                             network_data, oracle,
                             detect_antigens(immune_cells, memory_cells,
                                             network_data, oracle))
    /\ UNCHANGED <<immune_cells, memory_cells, learning_history, nnis_config,
                   not_nnis_vars>>

\* the calls that change the cells, MaxSteps of them in one run
NNISNext ==
    /\ nnis_calls.system + nnis_calls.cell < MaxSteps
    /\ \/ \E i \in DOMAIN immune_cells, success \in BOOLEAN : LearnDetector(i, success)
       \/ \E i \in DOMAIN memory_cells, success \in BOOLEAN : LearnMemory(i, success)
       \/ \E success \in BOOLEAN : LearnFromResponse(CallerResponse, success)
       \/ \E success \in BOOLEAN : FormMemoryCell(CallerResponse, success)
       \/ \E response_history \in ResponseHistories :
             OptimizeImmuneSystem(response_history)
       \/ \E change \in EnvironmentalChanges :
             AdaptToEnvironment(change.new_threat_types, change.threat_complexity)
       \/ \E load \in LoadIncreases :
             /\ load.threat_frequency = "high" => Len(immune_cells) < AdditionalCells
             /\ ScaleImmuneSystem(load.threat_frequency, load.concurrent_attacks)
       \/ RecoverFromFailure
       \/ ConsolidateMemory

\* the calls that form memory cells and those that read them
ImmuneMemoryNext ==
    \/ \E t \in ThreatTypes, c \in Confidences :
          ProcessThreat([threat_type |-> t, confidence |-> c])
    \/ \E response \in Responses, success \in BOOLEAN :
          FormMemoryCell(response, success)
    \/ ConsolidateMemory
    \/ \E network_data \in NetworkData, oracle \in OracleAnswers :
          DetectAntigens(network_data, oracle)

\* the calls that make memory cells, weaken them and consolidate them
ConsolidateNext ==
    \/ \E i \in DOMAIN memory_cells : LearnMemory(i, FALSE)
    \/ \E response \in Responses : FormMemoryCell(response, TRUE)
    \/ ConsolidateMemory

\* an NNISSystem with no cell, left alone
NNISQuiet == NNISInitWith(0, 0, 1)

----------------------------------------------------------------------------
\* ABISSSystem (security/abiss_system.py)
\*
\* scores, thresholds, effectiveness and collateral damage are in hundredths,
\* response times in tenths of a second.

\* threat scores handed to generate_adaptive_response
Scores == {0, 50, 51, 70, 71, 90, 91, 100}

\* the grading with the two middle bands exchanged
Grade_MiddleSwapped(threat_score) ==
    IF threat_score > 90 THEN [action |-> "block_ip", priority |-> 1]
    ELSE IF threat_score > 70 THEN [action |-> "alert_admin", priority |-> 3]
    ELSE IF threat_score > 50 THEN [action |-> "rate_limit", priority |-> 2]
    ELSE [action |-> "monitor", priority |-> 4]

\* the action and the priority generate_adaptive_response chooses
Grade(threat_score) ==
    IF threat_score > 90 THEN [action |-> "block_ip", priority |-> 1]
    ELSE IF threat_score > 70 THEN [action |-> "rate_limit", priority |-> 2]
    ELSE IF threat_score > 50 THEN [action |-> "alert_admin", priority |-> 3]
    ELSE [action |-> "monitor", priority |-> 4]

\* AdaptiveResponse.execute: the "success" of the result
execute(response) ==
    IF response.action = "block_ip" THEN TRUE
    ELSE IF response.action = "rate_limit" THEN TRUE
    ELSE IF response.action = "alert_admin" THEN TRUE
    ELSE FALSE

\* outcomes handed to learn_from_outcome
Outcomes ==
    {[threat_stopped |-> TRUE, false_positive |-> FALSE, response_time |-> 5,
      collateral_damage |-> 0],
     [threat_stopped |-> FALSE, false_positive |-> TRUE, response_time |-> 100,
      collateral_damage |-> 10]}

\* ABISSSystem.evaluate_response_effectiveness
evaluate_response_effectiveness(outcome) ==
    LET stopped == IF outcome.threat_stopped /\ ~outcome.false_positive THEN 60
                   ELSE IF outcome.threat_stopped THEN 40
                   ELSE IF outcome.false_positive THEN 0 - 30
                   ELSE 0
        timely == IF outcome.response_time < 10 THEN 20
                  ELSE IF outcome.response_time < 50 THEN 10
                  ELSE 0
    IN  Max(0, Min(100, stopped + timely - outcome.collateral_damage))

RECURSIVE SumEffectiveness(_)
SumEffectiveness(entries) ==
    IF entries = <<>> THEN 0
    ELSE Head(entries).effectiveness + SumEffectiveness(Tail(entries))

\* the adjustment without its cap
adjust_thresholds_for_poor_performance_Uncapped(history, threat_threshold) ==
    IF Len(history) > 10
       /\ SumEffectiveness(SubSeq(history, Len(history) - 9, Len(history))) < 10 * 50
    THEN threat_threshold + 5
    ELSE threat_threshold

\* ABISSSystem._adjust_thresholds_for_poor_performance: the new
\* config["threat_threshold"]
adjust_thresholds_for_poor_performance(history, threat_threshold) ==
    IF Len(history) > 10
       /\ SumEffectiveness(SubSeq(history, Len(history) - 9, Len(history))) < 10 * 50
    THEN Min(90, threat_threshold + 5)
    ELSE threat_threshold

AbissCall(op, threat_score, action) ==
    [op |-> op, threat_score |-> threat_score, action |-> action]

\* ABISSSystem.__init__ with a configuration
ABISSInitWith(memory_size, threat_threshold) ==
    /\ abiss_history = <<>>
    /\ abiss_config = [memory_size |-> memory_size,
                       threat_threshold |-> threat_threshold]
    /\ adaptive_responses = {}
    /\ abiss_calls = 0
    /\ abiss_last = AbissCall("init", 0, "")

ABISSInit ==
    \E memory_size \in 1..MaxMemorySize : ABISSInitWith(memory_size, 70)

\* config["threat_threshold"] as the caller may give it
Thresholds == {30, 70, 95}

\* ABISSSystem.__init__ with any of these thresholds
ABISSInitAny ==
    \E memory_size \in 1..MaxMemorySize, threat_threshold \in Thresholds :
        ABISSInitWith(memory_size, threat_threshold)

\* the environmental_factors handed to adjust_thresholds, the rate in
\* hundredths
EnvironmentalFactors ==
    [threat_landscape : {"high", "medium", "low"},
     false_positive_rate : {0, 10, 20}]

\* ABISSSystem.adjust_thresholds: the new config["threat_threshold"]
adjust_thresholds(threat_threshold, environmental_factors) ==
    LET by_landscape ==
            IF environmental_factors.threat_landscape = "high"
            THEN Max(50, threat_threshold - 10)
            ELSE IF environmental_factors.threat_landscape = "low"
            THEN Min(90, threat_threshold + 10)
            ELSE threat_threshold
    IN  IF environmental_factors.false_positive_rate > 15
        THEN Min(90, by_landscape + 5)
        ELSE IF environmental_factors.false_positive_rate < 5
        THEN Max(50, by_landscape - 5)
        ELSE by_landscape

\* ABISSSystem.generate_adaptive_response
GenerateAdaptiveResponse(threat_score) ==
    /\ adaptive_responses' =
           adaptive_responses \cup
               {[threat_score |-> threat_score,
                 action |-> Grade(threat_score).action,
                 priority |-> Grade(threat_score).priority]}
    /\ abiss_calls' = abiss_calls + 1
    /\ abiss_last' = AbissCall("generate_adaptive_response", threat_score,
                               Grade(threat_score).action)
    /\ UNCHANGED <<abiss_history, abiss_config, not_abiss_vars>>

\* ABISSSystem.learn_from_outcome
LearnFromOutcome(response, outcome) ==
    /\ LET effectiveness == evaluate_response_effectiveness(outcome)
           history == DequeAppend(abiss_history,
                                  [action |-> response.action,
                                   effectiveness |-> effectiveness],
                                  abiss_config.memory_size)
       IN  /\ abiss_history' = history
           /\ abiss_config' =
                  IF effectiveness < 30
                  THEN [abiss_config EXCEPT !.threat_threshold =
                           adjust_thresholds_for_poor_performance(history, @)]
                  ELSE abiss_config
    /\ abiss_calls' = abiss_calls + 1
    /\ abiss_last' = AbissCall("learn_from_outcome", response.threat_score,
                               response.action)
    /\ UNCHANGED <<adaptive_responses, not_abiss_vars>>

\* ABISSSystem.adjust_thresholds
AdjustThresholds(environmental_factors) ==
    /\ abiss_config' =
           [abiss_config EXCEPT !.threat_threshold =
               adjust_thresholds(@, environmental_factors)]
    /\ abiss_calls' = abiss_calls + 1
    /\ abiss_last' = AbissCall("adjust_thresholds", 0, "")
    /\ UNCHANGED <<abiss_history, adaptive_responses, not_abiss_vars>>

ABISSNext ==
    /\ abiss_calls < MaxAbissCalls
    /\ \/ \E threat_score \in Scores : GenerateAdaptiveResponse(threat_score)
       \/ \E response \in adaptive_responses, outcome \in Outcomes :
             LearnFromOutcome(response, outcome)
       \/ \E environmental_factors \in EnvironmentalFactors :
             AdjustThresholds(environmental_factors)

\* an AdaptiveResponse as generate_adaptive_response builds it
ResponseFor(threat_score) ==
    [threat_score |-> threat_score,
     action |-> Grade(threat_score).action,
     priority |-> Grade(threat_score).priority]

\* an ABISSSystem nothing is asked of
ABISSQuiet == ABISSInitWith(1, 70)

\* an ABISSSystem with the default memory_size and a threat_threshold at or
\* below the cap
ThresholdInit ==
    \E threat_threshold \in {70, 90} :
        ABISSInitWith(DefaultMemorySize, threat_threshold)

\* one response, its outcomes learnt one after the other
ThresholdNext ==
    /\ abiss_calls < MaxOutcomeCalls
    /\ \E outcome \in Outcomes : LearnFromOutcome(ResponseFor(91), outcome)

\* the calls of the two engines that append to a learning history
LearningNext ==
    \/ /\ abiss_calls < MaxAbissCalls
       /\ \E threat_score \in {50, 91}, outcome \in Outcomes :
             LearnFromOutcome(ResponseFor(threat_score), outcome)
    \/ \E response \in Responses, success \in BOOLEAN :
          LearnFromResponse(response, success)
    \/ \E t \in ThreatTypes, c \in Confidences :
          ProcessThreat([threat_type |-> t, confidence |-> c])

----------------------------------------------------------------------------
\* Specifications, one for each component and way of running it

SecQuiet == NNISQuiet /\ ABISSQuiet

InitP2P == P2PInit /\ OTAQuiet /\ LoraQuiet /\ SecQuiet
InitOTA == OTAInit /\ P2PQuiet /\ LoraQuiet /\ SecQuiet
InitHistory == OTAInitLoaded /\ P2PQuiet /\ LoraQuiet /\ SecQuiet
InitLora == LoraInit /\ P2PQuiet /\ OTAQuiet /\ SecQuiet
InitRecovery == RecoveryInit /\ OTAQuiet /\ LoraQuiet /\ SecQuiet
InitMonitor == MonitorInit /\ OTAQuiet /\ LoraQuiet /\ SecQuiet
InitNNIS == NNISInit /\ ABISSQuiet /\ P2PQuiet /\ OTAQuiet /\ LoraQuiet
InitABISS == ABISSInitAny /\ NNISQuiet /\ P2PQuiet /\ OTAQuiet /\ LoraQuiet
InitThreshold == ThresholdInit /\ NNISQuiet /\ P2PQuiet /\ OTAQuiet /\ LoraQuiet
InitLearning == NNISInitSized /\ ABISSInit /\ P2PQuiet /\ OTAQuiet /\ LoraQuiet

\* ChurnMitigation, its operations called one at a time
SpecP2P == InitP2P /\ [][P2PNext]_vars

\* ChurnMitigation, the monitor thread and a get_health_metrics caller
SpecP2PConc == InitP2P /\ [][P2PConcNext]_vars

\* ChurnMitigation, the monitor thread and a caller both in
\* _handle_node_failure
SpecFailureRace == InitP2P /\ [][FailureRaceNext]_vars

\* ChurnMitigation, nodes removed while active and while failed, and the
\* recovery checks that follow
SpecRemoval == InitRecovery /\ [][RemovalNext]_vars

\* ChurnMitigation, failures, removals and additions only
SpecChurn == InitP2P /\ [][ChurnNext]_vars

\* ChurnMitigation, the ticks of the monitor followed at the scale of
\* recovery_timeout
SpecRecovery == InitRecovery /\ [][RecoveryNext]_vars

\* ChurnMitigation, the lifecycle of the monitor thread.  The thread, once
\* started, keeps running (it is never starved), each ping answers or not,
\* and join returns once the thread has ended.
SpecMonitor ==
    /\ InitMonitor
    /\ [][MonitorLifeNext]_vars
    /\ WF_vars(MonitorExit)
    /\ WF_vars(MonitorBody)
    /\ WF_vars(StopJoined)

\* FederatedModelUpdater, its operations called one at a time
SpecOTA == InitOTA /\ [][OTANext]_vars

\* FederatedModelUpdater, started on a saved version history
SpecHistory == InitHistory /\ [][HistoryNext]_vars

\* FederatedModelUpdater, two threads in check_for_updates
SpecOTAConc == InitOTA /\ [][OTAConcNext]_vars

\* LoraAdaptiveEngine
SpecLora == InitLora /\ [][LoraNext]_vars

\* LoraAdaptiveEngine, run without end: the loop that reports the metrics
\* keeps calling adjust_parameters, and time keeps passing
SpecLoraSettle ==
    /\ InitLora
    /\ [][SettleNext]_vars
    /\ WF_vars(AdjustParameters)
    /\ WF_vars(LoraSettle)

\* NNISSystem, the calls that change its cells, one at a time
SpecNNIS == InitNNIS /\ [][NNISNext]_vars

\* NNISSystem, the calls that form its memory cells and those that read them
SpecImmuneMemory == InitNNIS /\ [][ImmuneMemoryNext]_vars

\* NNISSystem, memory cells made, weakened and consolidated
SpecConsolidate == InitNNIS /\ [][ConsolidateNext]_vars

\* the learning histories of the two engines
SpecLearning == InitLearning /\ [][LearningNext]_vars

\* ABISSSystem, called one at a time
SpecABISS == InitABISS /\ [][ABISSNext]_vars

\* ABISSSystem, a run of learn_from_outcome calls long enough to fill the
\* window of ten entries
SpecThreshold == InitThreshold /\ [][ThresholdNext]_vars


----------------------------------------------------------------------------
\* ChurnMitigation: properties

\* every shard node f holds before the step is held after it by a node that
\* is active then and is not f
ShardsMoved(f) ==
    f \in DOMAIN data_shards =>
        \A sh \in Range(data_shards[f]) :
            \E n \in active_nodes' \ {f} :
                n \in DOMAIN data_shards' /\ sh \in Range(data_shards'[n])

\* C1 (as claimed): whenever a failure or removal takes node f out of
\* active_nodes, every shard f held is afterwards held by an active node
\* other than f, and the total number of shards is what it was before.
C1_ShardPreservation ==
    [][\A f \in Nodes :
          (f \in active_nodes /\ f \notin active_nodes')
              => /\ ShardsMoved(f)
                 /\ TotalShards(data_shards') = TotalShards(data_shards)]_vars

\* C1 (amended): the same, for the failures and removals that find at least
\* one other active node to redistribute to.
C1_ShardPreservationWithSurvivor ==
    [][\A f \in Nodes :
          (f \in active_nodes /\ f \notin active_nodes' /\ ~stranded')
              => /\ ShardsMoved(f)
                 /\ TotalShards(data_shards') = TotalShards(data_shards)]_vars

\* a failed node's two shards have gone to two different survivors
C1_Witness ==
    /\ ~stranded
    /\ \E f \in DOMAIN failed_nodes :
         /\ f \notin DOMAIN data_shards
         /\ f \notin active_nodes
         /\ \E a, b \in active_nodes :
              /\ a # b
              /\ InitialShards(f)[1] \in Range(data_shards[a])
              /\ InitialShards(f)[2] \in Range(data_shards[b])

\* every service is assigned to an active node
ServicesCovered == \A s \in Services : service_assignments[s] \in active_nodes

\* C2 (as claimed): in every reachable state every service is assigned to a
\* node of active_nodes.
C2_ServiceCovering == ServicesCovered

\* C2 (amended): every service is assigned to an active node as long as no
\* failure or removal has hit the last active node.
C2_ServiceCoveringWithSurvivor == ~stranded => ServicesCovered

\* the node a service started on has failed and the service has moved to a
\* node that is active
C2_Witness ==
    /\ ~stranded
    /\ ServicesCovered
    /\ \E s \in Services :
         /\ InitialServices[s] \in DOMAIN failed_nodes
         /\ InitialServices[s] \notin active_nodes
         /\ service_assignments[s] # InitialServices[s]

\* C3 (as claimed): no node id is in both active_nodes and failed_nodes.
C3_MembershipDisjoint == active_nodes \cap DOMAIN failed_nodes = {}

\* C9 (as claimed): every report of a get_health_metrics call that ran inside
\* a monitor tick gives the membership counts the tick started from or the
\* counts it ended with.
C9_TickAtomicity ==
    mon_pc = "idle" =>
        \A r \in tick_seen : r = tick_pre \/ r = tick_post

----------------------------------------------------------------------------
\* FederatedModelUpdater: properties

\* C4: no check_for_updates call makes current_version smaller, whatever
\* version the server reports and however the call ends; a step that
\* lowers current_version is a rollback_to_version.
C4_Monotonic ==
    [][current_version' < current_version
          => ota_last'.op = "rollback_to_version"]_vars

\* after an update has gone through, the server answers a call with an
\* older version and the call leaves current_version where it was
C4_Witness ==
    /\ ota_last.op = "check_for_updates"
    /\ ota_last.answered
    /\ version_history # <<>>
    /\ ota_last.latest < ota_last.pre_version
    /\ current_version = ota_last.pre_version

\* C5 (as claimed): the model file is absent or passes
\* _verify_model_integrity after every operation.
C5_ModelValid ==
    ~model_file.exists \/ VerifyModelIntegrity(model_file.data)

\* C7 (as claimed): two check_for_updates calls that overlap never both
\* patch the model file.
C7_OneUpdateInFlight == ~both_patched

\* C8 (as claimed): after a check_for_updates call that ran _apply_patch,
\* current_version has changed only if the patched model is on disk in full,
\* and either the patched model is on disk in full and the backup taken for
\* the update is gone, or the old model is on disk and current_version is
\* what it was.
C8_AtomicCommit ==
    (ota_last.op = "check_for_updates" /\ ota_last.called) =>
        /\ current_version # ota_last.pre_version
              => ota_last.has_patched /\ model_file = FileOf(ota_last.patched)
        /\ \/ /\ ota_last.has_patched
              /\ model_file = FileOf(ota_last.patched)
              /\ ota_last.backup \cap backups = {}
           \/ /\ model_file = ota_last.pre_model
              /\ current_version = ota_last.pre_version

----------------------------------------------------------------------------
\* LoraAdaptiveEngine: properties

\* C6 (as claimed): an engine the constructor returned has, at all times,
\* tx_power at most its region's max_tx_power, spreading_factor in 7..12
\* and bandwidth in 125000..500000.
C6_RadioLegal ==
    lora_built =>
        /\ config.tx_power <= REGION_LIMITS[config.region].max_tx_power
        /\ config.spreading_factor >= PARAMETER_BOUNDS.spreading_factor.min
        /\ config.spreading_factor <= PARAMETER_BOUNDS.spreading_factor.max
        /\ config.bandwidth >= PARAMETER_BOUNDS.bandwidth.min
        /\ config.bandwidth <= PARAMETER_BOUNDS.bandwidth.max

\* C11: when the server answers with a version above current_version, the
\* device has the resources, the diff arrives and _apply_patch returns,
\* check_for_updates returns True, current_version is the server's version,
\* the version history is the one from before the call with one entry for
\* that version at its end (cut to its last max_rollback_versions entries),
\* and neither the diff file nor the backup taken for the update is left.
C11_UpdateSuccess ==
    (/\ ota_last.op = "check_for_updates"
     /\ ota_last.answered
     /\ ota_last.latest > ota_last.pre_version
     /\ ota_last.called
     /\ ota_last.raised = "") =>
        LET pre == ota_last.pre_history
            n == Len(version_history)
        IN /\ ota_last.result
           /\ ota_last.outcome = "true"
           /\ current_version = ota_last.latest
           /\ n = Min(Len(pre) + 1, MaxRollbackVersions)
           /\ version_history[n] = ota_last.latest
           /\ \A i \in 1..(n - 1) : version_history[i] = pre[Len(pre) - (n - 1) + i]
           /\ ~ota_last.diff_left
           /\ ota_last.backup \cap backups = {}

\* a second update in a row has gone through: the backup was taken and
\* removed, and the history holds the first update's entry and this one's
C11_Witness ==
    /\ ota_last.op = "check_for_updates"
    /\ ota_last.called
    /\ ota_last.raised = ""
    /\ ota_last.backup_made
    /\ ota_last.result
    /\ ota_last.pre_history # <<>>
    /\ Len(version_history) = Len(ota_last.pre_history) + 1
    /\ current_version = ota_last.latest
    /\ current_version > ota_last.pre_version

C13_NetworkErrorNonFatal ==
    (/\ ota_last.op = "check_for_updates"
     /\ ota_last.network_error # "") =>
        /\ ~ota_last.result
        /\ ota_last.outcome = "false"
        /\ current_version = ota_last.pre_version
        /\ model_file = ota_last.pre_model
        /\ version_history = ota_last.pre_history

\* after an update has gone through, the server announces a newer version
\* and the download of its diff fails: the call returns False and the
\* installed model stays
C13_Witness ==
    /\ ota_last.op = "check_for_updates"
    /\ ota_last.network_error = "download"
    /\ ota_last.answered
    /\ ota_last.latest > ota_last.pre_version
    /\ ota_last.pre_history # <<>>
    /\ model_file.exists
    /\ ~ota_last.result
    /\ current_version = ota_last.pre_version

----------------------------------------------------------------------------
\* LoraAdaptiveEngine: properties of adjust_parameters and of construction

\* C15 (as claimed): an adjust_parameters call that lowers tx_power sets it
\* to max(5, min(tx_power - 2, region maximum)), so that a power that was at
\* or above 5 does not fall below 5.
C15_TxPowerFloor ==
    (/\ lora_last.op = "adjust_parameters"
     /\ config.tx_power < lora_last.pre_config.tx_power) =>
        /\ config.tx_power =
             Max(PARAMETER_BOUNDS.tx_power.min,
                 Min(lora_last.pre_config.tx_power - 2,
                     REGION_LIMITS[config.region].max_tx_power))
        /\ lora_last.pre_config.tx_power >= PARAMETER_BOUNDS.tx_power.min
              => config.tx_power >= PARAMETER_BOUNDS.tx_power.min

\* C16 (as claimed): an adjust_parameters call that passes the gate with the
\* loss above target, the spreading factor at 12, the latest SNR above
\* target_snr and tx_power above 5 lowers tx_power and returns True.
C16_FallThrough ==
    (/\ lora_last.op = "adjust_parameters"
     /\ ~Gated(lora_now, lora_last.pre_time, metrics.len)
     /\ metrics.packet_loss > TargetPacketLoss
     /\ lora_last.pre_config.spreading_factor = PARAMETER_BOUNDS.spreading_factor.max
     /\ metrics.len > 0
     /\ metrics.snr_last > TargetSnr
     /\ lora_last.pre_config.tx_power > PARAMETER_BOUNDS.tx_power.min) =>
        /\ lora_last.returned
        /\ config.tx_power < lora_last.pre_config.tx_power

\* C17: an adjust_parameters call changes at most one of spreading_factor
\* and tx_power.  A call that passes the gate with the loss above target and
\* the spreading factor under 12 raises the spreading factor by exactly 1,
\* leaves tx_power alone and returns True; one with the loss at or under
\* target, the latest SNR above target_snr and tx_power above 5 lowers
\* tx_power by 2, leaves the spreading factor alone and returns True.
C17_OneParameter ==
    lora_last.op = "adjust_parameters" =>
        LET pre == lora_last.pre_config
            open == /\ lora_now - lora_last.pre_time >= MinAdjustmentInterval
                    /\ metrics.len >= MinHistory
        IN /\ \/ config.spreading_factor = pre.spreading_factor
              \/ config.tx_power = pre.tx_power
           /\ (/\ open
               /\ metrics.packet_loss > TargetPacketLoss
               /\ pre.spreading_factor < 12) =>
                  /\ config.spreading_factor = pre.spreading_factor + 1
                  /\ config.tx_power = pre.tx_power
                  /\ lora_last.returned
           /\ (/\ open
               /\ metrics.packet_loss <= TargetPacketLoss
               /\ metrics.snr_last > TargetSnr
               /\ pre.tx_power > 5) =>
                  /\ config.tx_power = pre.tx_power - 2
                  /\ config.spreading_factor = pre.spreading_factor
                  /\ lora_last.returned

\* the engine has made two adjustments, each of one parameter: the latest
\* one lowered tx_power by 2 under a spreading factor that an earlier
\* adjustment had raised
C17_Witness ==
    /\ lora_last.op = "adjust_parameters"
    /\ lora_last.returned
    /\ adjustment_count = 2
    /\ config.tx_power = lora_last.pre_config.tx_power - 2
    /\ config.spreading_factor = lora_last.pre_config.spreading_factor
    /\ \E base_config \in BaseConfigs :
         /\ base_config.region = config.region
         /\ base_config.bandwidth = config.bandwidth
         /\ config.spreading_factor = base_config.spreading_factor + 1

\* C18: an adjust_parameters call made with fewer than 5 entries in the
\* metrics history, or less than 30 s after the last accepted adjustment,
\* returns False and leaves the configuration, adjustment_count and
\* last_adjustment_time unchanged; a call that returns True comes at least
\* 30 s after the accepted adjustment before it.
C18_AdjustmentGate ==
    lora_last.op = "adjust_parameters" =>
        /\ (\/ metrics.len < 5
            \/ lora_now - lora_last.pre_time < 30) =>
                /\ ~lora_last.returned
                /\ config = lora_last.pre_config
                /\ adjustment_count = lora_last.pre_count
                /\ last_adjustment_time = lora_last.pre_time
        /\ lora_last.returned =>
                /\ last_adjustment_time = lora_now
                /\ last_adjustment_time - lora_last.pre_time >= 30

\* after an accepted adjustment, a call in the same 30 s with the history
\* full and the loss above target has returned False and changed nothing
C18_Witness ==
    /\ lora_last.op = "adjust_parameters"
    /\ ~lora_last.returned
    /\ lora_last.pre_time > 0
    /\ lora_now - lora_last.pre_time < 30
    /\ metrics.len >= 5
    /\ metrics.packet_loss > TargetPacketLoss
    /\ config.spreading_factor < 12
    /\ config = lora_last.pre_config

\* C19 (as claimed): the constructor returns an engine only for a
\* base_config with a known region, spreading_factor in 7..12, tx_power at
\* least 5, bandwidth in 125000..500000 and a known coding rate.
C19_ConstructionRejects ==
    (lora_last.op = "__init__" /\ lora_built) =>
        /\ config.region \in Regions
        /\ config.spreading_factor \in 7..12
        /\ config.tx_power >= 5
        /\ config.bandwidth >= 125000
        /\ config.bandwidth <= 500000
        /\ config.coding_rate \in PARAMETER_BOUNDS.coding_rate

----------------------------------------------------------------------------
\* ChurnMitigation: properties of the recovery check

\* C20: no step takes a node out of failed_nodes unless more than
\* recovery_timeout has passed since its recorded failure time; and after a
\* tick of the monitor, every node that its recovery check found failed for
\* more than recovery_timeout and whose ping answers is out of failed_nodes
\* and in active_nodes, with is_active true and failure_count 0.
C20_RecoveryTiming ==
    [][/\ \A n \in DOMAIN failed_nodes :
            n \notin DOMAIN failed_nodes' => now - failed_nodes[n] > RecoveryTimeout
       /\ rec_last'.flip # rec_last.flip =>
            \A n \in rec_last'.answers :
                now - rec_last'.failed[n] > RecoveryTimeout =>
                    /\ n \notin DOMAIN failed_nodes'
                    /\ n \in active_nodes'
                    /\ n \in DOMAIN node_health' =>
                          /\ node_health'[n].is_active
                          /\ node_health'[n].failure_count = 0]_vars

\* two steps of the clock after a node failed, the second tick of the
\* monitor has found it answering and restored it
C20_Witness ==
    /\ now = 2 * RecoveryTimeout
    /\ rec_last.flip = FALSE
    /\ \E n \in rec_last.answers :
         /\ rec_last.failed[n] = 0
         /\ n \in active_nodes
         /\ n \notin DOMAIN failed_nodes
         /\ node_health[n].is_active
         /\ node_health[n].failure_count = 0

----------------------------------------------------------------------------
\* ChurnMitigation: properties of reassignment, removal and consensus

\* the number of services assigned to node n
Load(services, n) == Cardinality({s \in DOMAIN services : services[s] = n})

\* the services of `order` from the i-th on go, one after the other, to the
\* owners that `final` gives them, each owner having at the moment it is
\* chosen no more services than any other node of `survivors`
RECURSIVE LeastLoadedRun(_, _, _, _, _)
LeastLoadedRun(services, order, i, survivors, final) ==
    IF i > Len(order) THEN TRUE
    ELSE LET s == order[i]
             n == final[s]
         IN /\ n \in survivors
            /\ \A m \in survivors : Load(services, n) <= Load(services, m)
            /\ LeastLoadedRun([services EXCEPT ![s] = n], order, i + 1,
                              survivors, final)

\* C21 (as claimed): when a failure or removal takes one node out of
\* active_nodes and other active nodes remain, every service the node owned
\* goes to a survivor that, at the moment it is chosen, has no more services
\* assigned than any other survivor.
C21_LeastLoaded ==
    [][\A f \in Nodes :
          (/\ f \in active_nodes
           /\ active_nodes' = active_nodes \ {f}
           /\ active_nodes' # {}) =>
              LET moved == {s \in DOMAIN service_assignments :
                               service_assignments[s] = f}
              IN \E order \in Perms(moved) :
                   LeastLoadedRun(service_assignments, order, 1,
                                  active_nodes', service_assignments')]_vars

\* what an operation leaves of the data and the services, over all its outcomes
DataAndServices(outcomes) ==
    {<<st.data_shards, st.service_assignments>> : st \in outcomes}

\* C22: from every state and for every active node, remove_node and
\* _handle_node_failure can leave the same data_shards and
\* service_assignments: whatever one can produce (over the orders of the
\* survivor list and the choices of the new owners) the other can too.
C22_RemoveLikeFailure ==
    \A n \in active_nodes :
        DataAndServices(RemoveOutcomes(Self, n))
            = DataAndServices(FailureOutcomes(Self, n, now))

\* a node that held shards and a service has been removed: it is in neither
\* set, its shards are with the remaining nodes and its service has a new
\* owner among them
C22_Witness ==
    /\ 1 \notin active_nodes
    /\ 1 \notin DOMAIN failed_nodes
    /\ 1 \notin DOMAIN node_health
    /\ active_nodes # {}
    /\ 1 \notin DOMAIN data_shards
    /\ \E n \in active_nodes : Range(InitialShards(1)) \cap Range(data_shards[n]) # {}
    /\ service_assignments["aggregator"] \in active_nodes

\* C23: with start_health_monitor and stop_health_monitor called one after
\* the other, at most one monitor thread is alive at any time; when
\* stop_health_monitor returns, the thread it joined is not alive; and every
\* stop_health_monitor call that waits in join returns, wherever in the tick
\* the thread was when the event was set.
C23_MonitorLifecycle ==
    /\ [](Cardinality(life.live) <= 1)
    /\ [][(life.caller = "join" /\ life'.caller = "idle")
             => life'.thread \notin life'.live]_vars
    /\ (life.caller = "join") ~> (life.caller = "idle" /\ life.thread \notin life.live)

\* a start found the thread alive and created none; later the event was set
\* while the thread was in its ping loop, and stop_health_monitor has
\* returned with the thread ended and no thread alive
C23_Witness ==
    /\ life.refused
    /\ life.signal_pc = "ping"
    /\ life.caller = "idle"
    /\ life.stop_event
    /\ life.thread # 0
    /\ life.live = {}

\* the quorums asked for, in tenths: 0.0, 0.1, ..., 1.0
Quorums == 0..10

\* ceil(quorum * total) for a quorum in tenths
QuorumSize(quorum, total) == (quorum * total + 9) \div 10

\* C24 (as claimed): in every membership state and for every quorum in
\* [0, 1], _reach_consensus returns True exactly when the number of active
\* nodes is at least max(2, ceil(quorum * total)), the total being the
\* active and the failed nodes together.
C24_Quorum ==
    \A quorum \in Quorums :
        ReachConsensus(active_nodes, quorum)
            <=> Cardinality(active_nodes)
                  >= Max(2, QuorumSize(quorum,
                                       Cardinality(active_nodes)
                                         + Cardinality(DOMAIN failed_nodes)))

----------------------------------------------------------------------------
\* Claims about the immune engine and the response engine

\* the cells of both lists
AllCells == Range(immune_cells) \cup Range(memory_cells)

C26_GradingMonotone ==
    /\ \A r \in adaptive_responses :
          /\ r.threat_score > 90 => r.action = "block_ip" /\ r.priority = 1
          /\ (r.threat_score > 70 /\ r.threat_score <= 90)
                => r.action = "rate_limit" /\ r.priority = 2
          /\ (r.threat_score > 50 /\ r.threat_score <= 70)
                => r.action = "alert_admin" /\ r.priority = 3
          /\ r.threat_score <= 50 => r.action = "monitor" /\ r.priority = 4
    /\ \A r1, r2 \in adaptive_responses :
          r1.threat_score > r2.threat_score => r1.priority <= r2.priority

\* responses of all four grades have been generated, one at each edge of
\* the middle bands
C26_Witness ==
    /\ {r.priority : r \in adaptive_responses} = 1..4
    /\ {70, 71} \subseteq {r.threat_score : r \in adaptive_responses}

\* an append to a ring of `size` entries: the ring stays within its size, the
\* entries it had stay in their order, and the oldest one goes when it was full
RingAppend(before, after, size) ==
    /\ Len(after) >= 1
    /\ Len(after) <= size
    /\ SubSeq(after, 1, Len(after) - 1) = IF Len(before) = size THEN Tail(before)
                                          ELSE before

\* C27: after any sequence of learn_from_outcome calls on the response
\* engine and learn_from_response and process_threat calls on the immune
\* engine, each learning history holds at most memory_size entries, and an
\* append to a full history drops its oldest entry.
C27_MemoryBound ==
    [][/\ Len(learning_history') <= nnis_config.memory_size
       /\ Len(abiss_history') <= abiss_config.memory_size
       /\ nnis_calls' # nnis_calls =>
             RingAppend(learning_history, learning_history', nnis_config.memory_size)
       /\ abiss_calls' # abiss_calls =>
             RingAppend(abiss_history, abiss_history', abiss_config.memory_size)]_vars

\* both histories are full and each has dropped an entry
C27_Witness ==
    /\ Len(learning_history) = nnis_config.memory_size
    /\ nnis_calls.system > nnis_config.memory_size
    /\ Len(abiss_history) = abiss_config.memory_size
    /\ abiss_calls > abiss_config.memory_size
    /\ nnis_config.memory_size > 1

\* the largest confidence among the antigens of a threat type
HighestConfidence(antigens, threat_type) ==
    LET of_type == {antigens[i].confidence :
                       i \in {j \in DOMAIN antigens : antigens[j].threat_type = threat_type}}
    IN  CHOOSE c \in of_type : \A d \in of_type : d <= c

\* C28: detect_antigens returns at most one antigen for a threat type, the
\* one with the highest confidence among those the detector cells, the oracle
\* and the memory cells produced for that type, and the list it returns is
\* in the order of descending confidence.
C28_Deduplication ==
    nnis_last.op = "detect_antigens" =>
        LET produced == CollectedAntigens(immune_cells, memory_cells,
                                          nnis_last.network_data, nnis_last.oracle)
            returned == nnis_last.returned
        IN  /\ \A i, j \in DOMAIN returned :
                  i # j => returned[i].threat_type # returned[j].threat_type
            /\ \A i \in DOMAIN returned :
                  /\ returned[i] \in Range(produced)
                  /\ returned[i].confidence =
                         HighestConfidence(produced, returned[i].threat_type)
            /\ \A i, j \in DOMAIN returned :
                  i < j => returned[i].confidence >= returned[j].confidence

\* the cells of one specialization, by their place in the list
OfSpecialization(memory, specialization) ==
    {i \in DOMAIN memory : memory[i].specialization = specialization}

\* C29: after consolidate_memory every specialization has at most two memory
\* cells, no removed cell was stronger than a kept cell of its specialization,
\* and every cell kept whose strength was below 0.3 has strength 0.5; the
\* cells kept are otherwise as they were.
C29_Consolidation ==
    [][nnis_last'.op = "consolidate_memory" /\ nnis_calls' # nnis_calls =>
          \E kept \in SUBSET DOMAIN memory_cells :
              /\ \A i \in DOMAIN memory_cells :
                    LET same == OfSpecialization(memory_cells,
                                                 memory_cells[i].specialization)
                    IN  /\ Cardinality(same \cap kept) = Min(2, Cardinality(same))
                        /\ (i \in kept) =>
                              \A j \in same \ kept :
                                  memory_cells[j].memory_strength
                                      <= memory_cells[i].memory_strength
              /\ memory_cells' =
                     [k \in 1..Cardinality(kept) |->
                         LET cell == SelectIdx(memory_cells, kept, 1)[k]
                         IN  IF cell.memory_strength < 30
                             THEN [cell EXCEPT !.memory_strength = 50]
                             ELSE cell]
              /\ \A i \in DOMAIN memory_cells' :
                    /\ Cardinality(OfSpecialization(memory_cells',
                                                    memory_cells'[i].specialization)) <= 2
                    /\ memory_cells'[i].memory_strength >= 30]_vars

\* consolidate_memory has removed the weakest of three network_anomaly cells
\* and raised a malware_detection cell that five failures had weakened
C29_Witness ==
    /\ nnis_last.op = "consolidate_memory"
    /\ nnis_calls = [system |-> 3, cell |-> 5]
    /\ Len(memory_cells) = 3
    /\ \E i \in DOMAIN memory_cells :
          /\ memory_cells[i].specialization = "malware_detection"
          /\ memory_cells[i].activation_threshold = 80
          /\ memory_cells[i].memory_strength = 50
    /\ Cardinality({i \in DOMAIN memory_cells :
                       /\ memory_cells[i].specialization = "network_anomaly"
                       /\ memory_cells[i].memory_strength = 80}) = 2

\* C30: after process_threat has handled an antigen of type T with a
\* confidence above 0.7 and the response has succeeded, memory_cells holds a
\* cell whose specialization contains the family name of T, whatever memory
\* cells the system started with.
C30_MemoryFormation ==
    (/\ nnis_last.op = "process_threat"
     /\ nnis_last.antigen.confidence > 7000
     /\ nnis_last.success)
        => \E i \in DOMAIN memory_cells :
               Family(nnis_last.antigen.threat_type)
                   \in Mentions(memory_cells[i].specialization)

----------------------------------------------------------------------------
\* ABISSSystem: thresholds

\* a step that is a call of learn_from_outcome
LearnFromOutcomeStep ==
    /\ abiss_calls' = abiss_calls + 1
    /\ abiss_last'.op = "learn_from_outcome"

\* ten times the mean effectiveness of the last ten entries of a history
\* that holds at least ten
RecentEffectiveness(history) ==
    SumEffectiveness(SubSeq(history, Len(history) - 9, Len(history)))

\* the threat_threshold after a raise of 0.05 that stops at 0.9
Raised(threat_threshold) ==
    IF threat_threshold + 5 > 90 THEN 90 ELSE threat_threshold + 5

\* C31 as stated: every learn_from_outcome call appends one entry to the
\* learning ring, and whenever the mean effectiveness of the last ten
\* entries is below 0.5 after the append, the call raises threat_threshold
\* by 0.05, to 0.9 at most.
C31_RaisedWheneverMeanLow ==
    [][LearnFromOutcomeStep =>
          /\ RingAppend(abiss_history, abiss_history', abiss_config.memory_size)
          /\ (Len(abiss_history') >= 10
              /\ RecentEffectiveness(abiss_history') < 10 * 50)
             => abiss_config'.threat_threshold =
                    Raised(abiss_config.threat_threshold)]_vars

\* C31: every learn_from_outcome call appends one entry to the learning
\* ring; it raises threat_threshold by 0.05, to 0.9 at most, when the
\* effectiveness of this call is below 0.3, the ring holds more than ten
\* entries after the append and the mean effectiveness of the last ten is
\* below 0.5, and leaves threat_threshold as it was otherwise.
C31_LearnFromOutcome ==
    [][LearnFromOutcomeStep =>
          /\ RingAppend(abiss_history, abiss_history', abiss_config.memory_size)
          /\ abiss_config'.threat_threshold =
                 IF /\ abiss_history'[Len(abiss_history')].effectiveness < 30
                    /\ Len(abiss_history') > 10
                    /\ RecentEffectiveness(abiss_history') < 10 * 50
                 THEN Raised(abiss_config.threat_threshold)
                 ELSE abiss_config.threat_threshold]_vars

\* eleven outcomes learnt, the last of them poor, and the threshold raised
\* from 0.7 to 0.75
C31_Witness ==
    /\ abiss_last.op = "learn_from_outcome"
    /\ Len(abiss_history) > 10
    /\ abiss_history[Len(abiss_history)].effectiveness < 30
    /\ abiss_config.threat_threshold = 75

\* C32: after every adjust_thresholds call threat_threshold lies in
\* [0.5, 0.9], whatever it was before the call and whatever the
\* environmental factors.
C32_ThresholdClamp ==
    abiss_last.op = "adjust_thresholds"
        => /\ abiss_config.threat_threshold >= 50
           /\ abiss_config.threat_threshold <= 90

----------------------------------------------------------------------------
\* FederatedModelUpdater: history and rollback

\* a step that is a check_for_updates call that committed an update
CommittedUpdate ==
    /\ ota_clock' = ota_clock + 1
    /\ ota_last'.op = "check_for_updates"
    /\ ota_last'.result

\* `after` is the end of `before` followed by `entry`
TailWith(before, after, entry) ==
    LET all == before \o <<entry>>
    IN  /\ Len(after) <= Len(all)
        /\ after = SubSeq(all, Len(all) - Len(after) + 1, Len(all))

\* C33: the version history changes only in a committed update, which puts
\* the new version at its end and keeps the entries before it in their
\* order; after every committed update it holds at most
\* max_rollback_versions entries, the most recent ones.
C33_HistoryBound ==
    [][/\ version_history' # version_history => CommittedUpdate
       /\ CommittedUpdate =>
             /\ Len(version_history') =
                    Min(Len(version_history) + 1, MaxRollbackVersions)
             /\ TailWith(version_history, version_history', current_version')]_vars

\* an update committed on a full history: the oldest entry has gone and the
\* new version is the last of max_rollback_versions entries
C33_Witness ==
    /\ ota_last.op = "check_for_updates"
    /\ ota_last.result
    /\ Len(ota_last.pre_history) = MaxRollbackVersions
    /\ Len(version_history) = MaxRollbackVersions
    /\ version_history = Tail(ota_last.pre_history) \o <<current_version>>
    /\ version_history # ota_last.pre_history

----------------------------------------------------------------------------
\* ChurnMitigation: membership

\* the entries of the failure history that name node n
FailureEntries(n) ==
    {i \in DOMAIN failure_history : failure_history[i].node = n}

\* C34: when the monitor and a caller of handle_node_failure are in
\* _handle_node_failure for the same node at the same time, neither call
\* ends in an error, and once both have ended the failure of the node has
\* been processed once: one failure entry, failure_count raised once.
C34_HandledOnce ==
    /\ \A t \in FailureThreads : hnf[t].pc # "raised"
    /\ (/\ \A t \in FailureThreads : hnf[t].pc = "returned"
        /\ hnf["monitor"].node = hnf["caller"].node)
           => /\ Cardinality(FailureEntries(hnf["caller"].node)) = 1
              /\ node_health[hnf["caller"].node].failure_count = 1

\* the nodes the object was constructed with or that add_node brought in,
\* less those remove_node took out: the constructor and add_node make the
\* node_health record of a node and only remove_node deletes it
Members == DOMAIN node_health

\* get_health_metrics: total_nodes
TotalNodes == Cardinality(active_nodes) + Cardinality(DOMAIN failed_nodes)

\* C35: every node that was in the initial list or was added, and that
\* remove_node has not removed, is in active_nodes or in failed_nodes after
\* every step, whatever failures, recovery checks and cleanups have run;
\* and total_nodes changes only in an add_node call (a node joins
\* active_nodes and nothing else moves) or a remove_node call (a node
\* leaves the members).
C35_MembershipConserved ==
    [][/\ Members' \subseteq active_nodes' \cup DOMAIN failed_nodes'
       /\ TotalNodes' # TotalNodes =>
              \/ Members' # Members
              \/ /\ failed_nodes' = failed_nodes
                 /\ active_nodes \subseteq active_nodes'
                 /\ active_nodes' # active_nodes]_vars

\* C36: a node remove_node has returned for is in neither active_nodes nor
\* failed_nodes, whether it was active or failed before the call, and no
\* recovery check puts it back into active_nodes, until add_node is called
\* for it.
C36_RemovedStayRemoved ==
    removed \cap (active_nodes \cup DOMAIN failed_nodes) = {}

\* C37: when check_for_updates has moved the node from version v to a
\* newer one and rollback_to_version(v) is the next call, it returns true
\* and the model file is again the one that was on disk before the update.
C37_RollbackAfterUpdate ==
    [][(/\ ota_last.op = "check_for_updates"
        /\ ota_last.result
        /\ ota_last.pre_model.exists
        /\ ota_clock' = ota_clock + 1
        /\ ota_last'.op = "rollback_to_version"
        /\ ota_last'.latest = ota_last.pre_version)
          => /\ ota_last'.result
             /\ model_file' = ota_last.pre_model]_vars

----------------------------------------------------------------------------
\* LoraAdaptiveEngine: convergence

\* C38: in every step spreading_factor does not decrease and tx_power does
\* not increase, and bandwidth changes only in a step that changes one of
\* the two; and every run of the engine, however long, reaches a
\* configuration that no later call changes.
C38_Stabilises ==
    /\ [][/\ config'.spreading_factor >= config.spreading_factor
          /\ config'.tx_power <= config.tx_power
          /\ config'.bandwidth # config.bandwidth =>
                \/ config'.spreading_factor # config.spreading_factor
                \/ config'.tx_power # config.tx_power]_vars
    /\ <>[][config' = config]_vars

\* adjustments have been made, the spreading factor has reached its
\* maximum, and an adjust_parameters call that passed the gate with the
\* packet loss still above the target has returned false
C38_Witness ==
    /\ lora_last.op = "adjust_parameters"
    /\ ~lora_last.returned
    /\ ~Gated(lora_now, last_adjustment_time, metrics.len)
    /\ last_adjustment_time > 0
    /\ metrics.packet_loss > TargetPacketLoss
    /\ config.spreading_factor = PARAMETER_BOUNDS.spreading_factor.max
    /\ lora_last.pre_config = config

----------------------------------------------------------------------------
\* NNISSystem and ABISSSystem: responses

\* C39: when process_threat handles an antigen of threat type T and the
\* response executes, learn(success) is applied to every detector cell
\* whose specialization is that of T's family, and every other detector
\* cell is left as it was.
C39_FeedbackReachesDetectors ==
    [][(/\ nnis_calls'.system = nnis_calls.system + 1
        /\ nnis_last'.op = "process_threat")
          => /\ DOMAIN immune_cells' = DOMAIN immune_cells
             /\ \A i \in DOMAIN immune_cells :
                   immune_cells'[i] =
                       IF Family(nnis_last'.antigen.threat_type)
                              \in Mentions(immune_cells[i].specialization)
                       THEN learn(immune_cells[i], nnis_last'.success)
                       ELSE immune_cells[i]]_vars

\* C40: for every threat score, the response generate_adaptive_response
\* returns executes with success, whichever of block_ip, rate_limit,
\* alert_admin and monitor it was graded to.
C40_ResponsesExecutable ==
    \A response \in adaptive_responses : execute(response)

====
